---------------------------- MODULE Spec2Model ----------------------------
(***************************************************************************)
(* Model of the dust-accretion engine of qcSystemGenerator.                *)
(*                                                                         *)
(* Two generations of the engine coexist in the repository and both are    *)
(* modelled:                                                               *)
(*   - qc::SystemGenerator::Generator  (source/Generator.cpp), operations   *)
(*     generate, generate2, accreteDust, accreteDust2, collectDust,         *)
(*     coalescePlanetisimals, updateDustLanes;                              *)
(*   - GenerationState + System  (source/GenerationState.cpp,               *)
(*     source/System.cpp), operations create/distributePlanetaryMass,       *)
(*     accreteDust, collectDust, updateDustLanes (prefix GS_ / System_).    *)
(*                                                                         *)
(* Number representation.  The program computes in IEEE doubles.  The      *)
(* model computes on fixed-point grids:                                     *)
(*   - distances (band edges, semi-major axes, effect limits) are whole     *)
(*     grid units; an inner effect limit is rounded down and an outer one   *)
(*     up, so r_inner < sma < r_outer as in the program;                    *)
(*   - eccentricities and the effect-limit scalar are in 1/EccScale;        *)
(*   - masses are whole mass units, SolarMass units to one solar mass.      *)
(* Two computed limits can coincide with a band edge on the grid; in the    *)
(* program the same coincidence needs two doubles to be equal, which the    *)
(* comparisons of updateDustLanes explicitly provide for (<, <=, >, >=).    *)
(***************************************************************************)
EXTENDS Integers, Sequences, FiniteSets, TLC

(***************************************************************************)
(* Units of the fixed-point representation.                                *)
(***************************************************************************)
EccScale == 10
SolarMass == 10000

(***************************************************************************)
(* Bounds of the model.                                                    *)
(***************************************************************************)
\* Star::getDustZone().second on the grid (curtMass * OuterDustScalar).
DustOuter == 10
\* Star::getProtoplanetZone() on the grid.
ProtoInner == 2
ProtoOuter == 6
\* Raw values one draw of the random stream can take: 0 .. DrawMax.
DrawMax == 2
\* Longest prefix of one seed's random stream the model determines.
MaxDraws == 4
\* generate / generate2 / create calls in one behaviour.
MaxRuns == 2

(***************************************************************************)
(* Program constants.                                                      *)
(***************************************************************************)
\* InnerDustScalar
DustInner == 0
\* CloudEccentricity = 0.2, in 1/EccScale
CloudEccentricity == 2
\* Gas-to-dust ratio K of collectDust
K == 50
\* B of CriticalLimit, in mass units at a perihelion of one grid unit
CriticalLimitB == 16
\* Config::ProtoplanetSeedMass, in mass units
ProtoplanetSeedMass == 2
\* 1 / 0.0001, the convergence tolerance of the growth loop
ConvergenceDivisor == 10000
\* Dole's A (Generator) / Config::DustDensity (System), mass units per grid unit
DustDensityA == 4
\* Generator::seedVal as constructed
DefaultSeed == 5489
\* randomEccentricity(): "from 0.00 to about 0.20", in 1/EccScale
MaxRandomEccentricity == 2
\* ProtoplanetSeed: eccentricities above 0.9 are replaced by a random one
MaxSeedEccentricity == 9

Max(a, b) == IF a >= b THEN a ELSE b
Min(a, b) == IF a <= b THEN a ELSE b
CeilDiv(a, b) == (a + b - 1) \div b

(***************************************************************************)
(* Dust bands.                                                             *)
(***************************************************************************)
Dust(inner, outer, hasDust, hasGas) ==
    [innerEdge |-> inner, outerEdge |-> outer,
     dustPresent |-> hasDust, gasPresent |-> hasGas]

\* The single band generate() and GenerationState::finalize() start from.
InitialDust == << Dust(DustInner, DustOuter, TRUE, TRUE) >>

(***************************************************************************)
(* Equations.                                                              *)
(***************************************************************************)
\* EffectLimitScalar: pow(mass / (1 + mass), 1/4), in 1/EccScale, rounded
\* down: the largest k with (k/EccScale)^4 <= mass / (SolarMass + mass).
EffectLimitScalar(mass) ==
    Cardinality({k \in 1..(EccScale - 1) :
        k * k * k * k * (SolarMass + mass) <= EccScale * EccScale * EccScale * EccScale * mass})

\* GetEffectLimits: <<r_inner, r_outer>> of a protoplanet.
GetEffectLimits(sma, e, mass) ==
    LET scalar == EffectLimitScalar(mass)
    IN  << (sma * (EccScale - e) * (EccScale - scalar))
               \div (EccScale * (EccScale + CloudEccentricity)),
           CeilDiv(sma * (EccScale + e) * (EccScale + scalar),
                   EccScale * (EccScale - CloudEccentricity)) >>

\* CriticalLimit: B * pow(perihelion * sqrt(luminosity), -0.75) for a star of
\* luminosity 1, rounded down: the largest c with c^4 * perihelion^3 <= B^4.
\* Only a perihelion below one grid unit gives more than B, and never more
\* than B * EccScale.
CriticalLimit(sma, e) ==
    LET perihelion == sma * EccScale - sma * e   \* in 1/EccScale grid units
        b4 == CriticalLimitB * CriticalLimitB * CriticalLimitB * CriticalLimitB
        most == IF perihelion >= EccScale THEN CriticalLimitB
                ELSE CriticalLimitB * EccScale
    IN  Cardinality({c \in 1..most :
            c * c * c * c
                <= (b4 * EccScale * EccScale * EccScale)
                       \div (perihelion * perihelion * perihelion)})


(***************************************************************************)
(* Generator::Protoplanet.                                                 *)
(***************************************************************************)
Protoplanet(sma, e, mass) ==
    [sma |-> sma, eccentricity |-> e, mass |-> mass,
     criticalMass |-> 0, dustMass |-> mass, gasMass |-> 0,
     r_inner |-> 0, r_outer |-> 0, active |-> TRUE]

WithLimits(p, limits) == [p EXCEPT !.r_inner = limits[1], !.r_outer = limits[2]]

(***************************************************************************)
(* Generator::collectDust.  The recursion over the forward_list is a       *)
(* recursion over the index i.  Result: the mass, dust mass and gas mass   *)
(* collected from band i onwards.                                          *)
(*                                                                         *)
(* dustDensity = A * sqrt(stellarMass) * exp(-Alpha * sma^(1/N)) and the   *)
(* factor area = 4 pi sma^2 scalar (1 - e (outerTemp - innerTemp) /        *)
(* bandWidth) are strictly positive for every protoplanet of the program   *)
(* (stellarMass > 0, lastMass > 0, e < 1); the model takes their product   *)
(* per unit of width as the constant `density`.                            *)
(***************************************************************************)
\* sqrt(criticalMass / lastMass) in 1/EccScale, rounded down.
SqrtRatio(criticalMass, lastMass) ==
    Cardinality({q \in 1..EccScale :
        q * q * lastMass <= EccScale * EccScale * criticalMass})

RECURSIVE collectDust(_, _, _, _, _)
collectDust(lastMass, protoplanet, bands, density, i) ==
    IF i > Len(bands)
    THEN [mass |-> 0, dustMass |-> 0, gasMass |-> 0]
    ELSE
    LET dustband == bands[i]
        next == collectDust(lastMass, protoplanet, bands, density, i + 1)
    IN  IF (dustband.outerEdge <= protoplanet.r_inner)
            \/ (dustband.innerEdge >= protoplanet.r_outer)
        THEN next
        ELSE
        LET tempDensity == IF dustband.dustPresent THEN density ELSE 0
            dustOnly == (lastMass < protoplanet.criticalMass) \/ ~dustband.gasPresent
            massDensity ==
                IF dustOnly THEN tempDensity
                ELSE (K * tempDensity * EccScale)
                       \div (EccScale + SqrtRatio(protoplanet.criticalMass, lastMass) * (K - 1))
            gasDensity == IF dustOnly THEN 0 ELSE massDensity - tempDensity
            bandWidth == protoplanet.r_outer - protoplanet.r_inner
            outerTemp == Max(0, protoplanet.r_outer - dustband.outerEdge)
            innerTemp == Max(0, dustband.innerEdge - protoplanet.r_inner)
            width == (bandWidth - outerTemp) - innerTemp
            newMass == width * massDensity
            additionalGasMass == width * gasDensity
            additionalDustMass == newMass - additionalGasMass
        IN  [mass |-> newMass + next.mass,
             dustMass |-> additionalDustMass + next.dustMass,
             gasMass |-> additionalGasMass + next.gasMass]

(***************************************************************************)
(* Generator::updateDustLanes, first loop: what one band becomes.  The     *)
(* loop steps over the bands it inserts, so each original band is handled  *)
(* once and the pieces are never looked at again.                          *)
(***************************************************************************)
\* SplitBand without the band beyond r_outer.
SplitBandNoOuter(currentBand, protoplanet, gasRemains) ==
    IF currentBand.outerEdge > protoplanet.r_outer
       /\ currentBand.innerEdge < protoplanet.r_outer
    THEN << [currentBand EXCEPT !.outerEdge = Max(currentBand.innerEdge, protoplanet.r_inner)],
            Dust(Max(currentBand.innerEdge, protoplanet.r_inner), protoplanet.r_outer,
                 FALSE, currentBand.gasPresent /\ gasRemains) >>
    ELSE << currentBand >>

SplitBand(currentBand, protoplanet, gasRemains) ==
    LET r_inner == protoplanet.r_inner
        r_outer == protoplanet.r_outer
    IN  IF currentBand.innerEdge < r_inner /\ currentBand.outerEdge > r_outer
        THEN << [currentBand EXCEPT !.outerEdge = r_inner],
                Dust(r_inner, r_outer, FALSE, currentBand.gasPresent /\ gasRemains),
                Dust(r_outer, currentBand.outerEdge,
                     currentBand.dustPresent, currentBand.gasPresent) >>
        ELSE IF currentBand.innerEdge < r_outer /\ currentBand.outerEdge >= r_outer
        THEN << Dust(currentBand.innerEdge, r_outer, FALSE,
                     currentBand.gasPresent /\ gasRemains),
                Dust(r_outer, currentBand.outerEdge,
                     currentBand.dustPresent, currentBand.gasPresent) >>
        ELSE IF currentBand.innerEdge <= r_inner /\ currentBand.outerEdge > r_inner
        THEN << [currentBand EXCEPT !.outerEdge = r_inner],
                Dust(r_inner, currentBand.outerEdge, FALSE,
                     currentBand.gasPresent /\ gasRemains) >>
        ELSE IF currentBand.innerEdge >= r_inner /\ currentBand.outerEdge <= r_outer
        THEN << Dust(currentBand.innerEdge, currentBand.outerEdge, FALSE,
                     IF currentBand.gasPresent THEN gasRemains ELSE FALSE) >>
        ELSE << currentBand >>

RECURSIVE SplitBands(_, _, _, _)
SplitBands(bands, protoplanet, gasRemains, i) ==
    IF i > Len(bands) THEN << >>
    ELSE SplitBand(bands[i], protoplanet, gasRemains)
             \o SplitBands(bands, protoplanet, gasRemains, i + 1)

(***************************************************************************)
(* updateDustLanes, second loop: recompute dustRemains and coalesce        *)
(* adjacent bands with equal flags.  The loop does not advance after a     *)
(* merge, so the merged band is tested and compared again.                 *)
(***************************************************************************)
\* The overlap test with the limits of the zone left out.
InsideZone(band, zone) ==
    band.dustPresent /\ band.outerEdge > zone[1] /\ band.innerEdge < zone[2]

InZone(band, zone) ==
    band.dustPresent /\ band.outerEdge >= zone[1] /\ band.innerEdge <= zone[2]

\* CoalesceBands without the erase_after: dustRemains only.
KeepBands(bands, zone, remains, i) ==
    [dust |-> bands,
     dustRemains |-> remains \/ \E j \in i..Len(bands) : InZone(bands[j], zone)]

RECURSIVE CoalesceBands(_, _, _, _)
CoalesceBands(bands, zone, remains, i) ==
    IF i > Len(bands) THEN [dust |-> bands, dustRemains |-> remains]
    ELSE
    LET currentBand == bands[i]
        remains2 == remains \/ InZone(currentBand, zone)
    IN  IF i < Len(bands)
           /\ currentBand.dustPresent = bands[i + 1].dustPresent
           /\ currentBand.gasPresent = bands[i + 1].gasPresent
        THEN CoalesceBands(
                 [j \in 1..(Len(bands) - 1) |->
                     IF j < i THEN bands[j]
                     ELSE IF j = i
                          THEN [currentBand EXCEPT !.outerEdge = bands[i + 1].outerEdge]
                          ELSE bands[j + 1]],
                 zone, remains2, i)
        ELSE CoalesceBands(bands, zone, remains2, i + 1)

\* updateDustLanes giving every band gas again when the protoplanet is
\* below its critical mass.
updateDustLanesGasBack(bands, protoplanet, zone) ==
    LET gasRemains == protoplanet.mass < protoplanet.criticalMass
        swept == CoalesceBands(SplitBands(bands, protoplanet, gasRemains, 1), zone, FALSE, 1)
    IN  [swept EXCEPT !.dust =
            [i \in 1..Len(swept.dust) |->
                [swept.dust[i] EXCEPT !.gasPresent = @ \/ gasRemains]]]

\* Generator::updateDustLanes: the new availableDust and dustRemains.
updateDustLanes(bands, protoplanet, zone) ==
    LET gasRemains == protoplanet.mass < protoplanet.criticalMass
    IN  CoalesceBands(SplitBands(bands, protoplanet, gasRemains, 1), zone, FALSE, 1)

(***************************************************************************)
(* Planets and Generator::coalescePlanetisimals.                           *)
(***************************************************************************)
\* Planet(sma, e, dustMassComponent, gasMassComponent).  `run` records the
\* generate call that inserted the planet (history, not program state).
Planet(sma, e, dustMassComponent, gasMassComponent, run) ==
    [sma |-> sma, e |-> e, dustMass |-> dustMassComponent,
     gasMass |-> gasMassComponent, orbit |-> << >>, run |-> run]

\* Planet::getMass(): totalMass = dustMass + gasMass.
getMass(planet) == planet.dustMass + planet.gasMass

Abs(x) == IF x < 0 THEN 0 - x ELSE x

\* Largest r with r^2 <= n, and largest r with r^4 <= n.
ISqrt(n) == Cardinality({r \in 1..(4 * EccScale * EccScale) : r * r <= n})

\* The collision test of coalescePlanetisimals, distances in 1/EccScale^2
\* grid units.
Collides(planet, protoplanet) ==
    LET unit == EccScale * EccScale
        diff == planet.sma - protoplanet.sma
        ppEffectLimitScalar == EffectLimitScalar(protoplanet.mass)
        planetEffectLimitScalar == EffectLimitScalar(getMass(planet))
        dist1 == IF diff > 0
                 THEN protoplanet.sma * (EccScale + protoplanet.eccentricity)
                          * (EccScale + ppEffectLimitScalar) - protoplanet.sma * unit
                 ELSE protoplanet.sma * unit
                          - protoplanet.sma * (EccScale - protoplanet.eccentricity)
                              * (EccScale - ppEffectLimitScalar)
        dist2 == IF diff > 0
                 THEN planet.sma * unit
                          - planet.sma * (EccScale - planet.e) * (EccScale - planetEffectLimitScalar)
                 ELSE planet.sma * (EccScale + planet.e) * (EccScale + planetEffectLimitScalar)
                          - planet.sma * unit
    IN  (Abs(diff) * unit <= Abs(dist1)) \/ (Abs(diff) * unit <= Abs(dist2))

\* MergedProtoplanet keeping only the protoplanet's gas.
MergedWithoutPlanetGas(planet, protoplanet) ==
    [sma |-> planet.sma, eccentricity |-> planet.e,
     mass |-> getMass(planet) + protoplanet.mass, criticalMass |-> 0,
     dustMass |-> planet.dustMass + protoplanet.dustMass,
     gasMass |-> protoplanet.gasMass,
     r_inner |-> 0, r_outer |-> 0, active |-> TRUE]

\* The protoplanet a collision of `planet` and `protoplanet` leaves.
MergedProtoplanet(planet, protoplanet) ==
    LET mQ == getMass(planet)
        mP == protoplanet.mass
        newSMA == ((mQ + mP) * planet.sma * protoplanet.sma)
                      \div (mQ * protoplanet.sma + mP * planet.sma)
        \* sqrt(a), sqrt(1 - e^2) and sqrt(sqrt(1 - e^2)), each in 1/EccScale
        sqrtA(a) == ISqrt(a * EccScale * EccScale)
        sqrtE(e) == ISqrt(EccScale * EccScale - e * e)
        sqrtSqrtE(e) == ISqrt(EccScale * sqrtE(e))
        term1 == mQ * sqrtA(planet.sma) * sqrtE(planet.e)
        term2 == mP * sqrtA(protoplanet.sma) * sqrtSqrtE(protoplanet.eccentricity)
        \* e2 before the max, in 1/EccScale
        ratio == (term1 + term2) \div ((mQ + mP) * sqrtA(newSMA))
        sq == ratio * ratio
        e2 == Max(0, EccScale * EccScale - sq)
        newE == ISqrt(e2)
    IN  [sma |-> newSMA, eccentricity |-> newE, mass |-> mQ + mP,
         criticalMass |-> 0,
         dustMass |-> planet.dustMass + protoplanet.dustMass,
         gasMass |-> planet.gasMass + protoplanet.gasMass,
         r_inner |-> 0, r_outer |-> 0, active |-> TRUE]

\* A scan of the planet list that finds no collision.
NoCollisionFound(planets, protoplanet) == 0

\* Index of the first planet the protoplanet collides with, 0 when none.
FirstCollision(planets, protoplanet) ==
    LET hits == {i \in 1..Len(planets) : Collides(planets[i], protoplanet)}
    IN  IF hits = {} THEN 0 ELSE CHOOSE i \in hits : \A j \in hits : i <= j

\* A removal that leaves the list as it is.
RemoveNone(planets, sma) == planets

\* planetList.remove_if(p.getSemimajorAxis() == planet->getSemimajorAxis())
RECURSIVE RemoveBySma(_, _)
RemoveBySma(planets, sma) ==
    IF planets = << >> THEN << >>
    ELSE IF Head(planets).sma = sma THEN RemoveBySma(Tail(planets), sma)
    ELSE << Head(planets) >> \o RemoveBySma(Tail(planets), sma)

\* The same removal when the erased node no longer holds the semi-major
\* axis: the planets up to the matched one are compared with the live
\* value, the planets after it with a value none of them has.
RemoveMatched(planets, hit) ==
    RemoveBySma(SubSeq(planets, 1, hit), planets[hit].sma)
        \o SubSeq(planets, hit + 1, Len(planets))

\* Line 327.  The predicate reads the semi-major axis through the captured
\* iterator `planet` for every element of the list; once the matched node
\* is erased that iterator dangles, and every later element is compared
\* with what the freed node holds.  The outcomes: the old value is still
\* there, or it is not.
remove_if(planets, hit) ==
    {RemoveBySma(planets, planets[hit].sma), RemoveMatched(planets, hit)}

\* The number of elements the predicate is called for after the matched
\* node was erased.
ReadsAfterErase(planets, hit) == Len(planets) - hit

\* The insertion scan of coalescePlanetisimals (lines 348-373): the index
\* after which newPlanet is emplaced, 0 for emplace_front, -1 when the scan
\* ends without inserting.
RECURSIVE InsertScan(_, _, _)
InsertScan(planets, newPlanet, current) ==
    IF current > Len(planets) THEN 0 - 1
    ELSE IF current = Len(planets) THEN current
    ELSE IF planets[current].sma < newPlanet.sma /\ planets[current + 1].sma >= newPlanet.sma
    THEN current
    ELSE InsertScan(planets, newPlanet, current + 1)

\* InsertPlanet adding the new body to the first planet in place.
InsertInPlace(planets, newPlanet) ==
    IF planets = << >> THEN << newPlanet >>
    ELSE << [planets[1] EXCEPT !.dustMass = @ + newPlanet.dustMass,
                               !.gasMass = @ + newPlanet.gasMass] >> \o Tail(planets)

\* InsertPlanet without the scan: always emplace_front.
InsertFront(planets, newPlanet) == << newPlanet >> \o planets

InsertPlanet(planets, newPlanet) ==
    IF planets = << >> \/ planets[1].sma > newPlanet.sma
    THEN << newPlanet >> \o planets
    ELSE LET at == InsertScan(planets, newPlanet, 1)
         IN  IF at < 0 THEN planets
             ELSE SubSeq(planets, 1, at) \o << newPlanet >>
                      \o SubSeq(planets, at + 1, Len(planets))

(***************************************************************************)
(* Generator::accreteDust, the growth loop (lines 96-106).  `addedMass` is *)
(* the mass collected by the previous iteration.  Result: what the last    *)
(* collectDust call returned and the protoplanet as that call saw it.      *)
(***************************************************************************)
RECURSIVE GrowthLoop(_, _, _, _)
GrowthLoop(protoplanet, bands, density, addedMass) ==
    LET p == WithLimits(protoplanet,
                 GetEffectLimits(protoplanet.sma, protoplanet.eccentricity,
                                 protoplanet.mass + addedMass))
        oldMass == addedMass
        collected == collectDust(protoplanet.mass + addedMass, p, bands, density, 1)
    IN  IF collected.mass > 0
           /\ (collected.mass - oldMass) * ConvergenceDivisor >= oldMass
        THEN GrowthLoop(protoplanet, bands, density, collected.mass)
        ELSE [collected |-> collected, protoplanet |-> p]

\* The protoplanet with the collected mass added and its effect limits
\* recomputed from the new mass (accreteDust lines 111-117, accreteDust2
\* lines 192-199).
Grown(p, collected) ==
    LET q == [p EXCEPT !.mass = p.mass + collected.mass,
                       !.dustMass = p.dustMass + collected.dustMass,
                       !.gasMass = p.gasMass + collected.gasMass]
    IN  WithLimits(q, GetEffectLimits(q.sma, q.eccentricity, q.mass))

(***************************************************************************)
(* GenerationState, the accretion of System::create.  Its protoplanet      *)
(* carries reducedMass, the effect-limit scalar of the mass last used.     *)
(***************************************************************************)
GS_Protoplanet(sma, e, mass) ==
    [sma |-> sma, eccentricity |-> e, mass |-> mass, reducedMass |-> 0,
     criticalMass |-> 0, dustMass |-> mass, gasMass |-> 0, r_inner |-> 0, r_outer |-> 0]

\* GenerationState::innerEffectLimit and outerEffectLimit; `mass` is the
\* scalar the caller passes, in 1/EccScale.
GS_EffectLimits(sma, e, mass) ==
    << (sma * (EccScale - e) * (EccScale - mass))
           \div (EccScale * (EccScale + CloudEccentricity)),
       CeilDiv(sma * (EccScale + e) * (EccScale + mass),
               EccScale * (EccScale - CloudEccentricity)) >>

\* GenerationState::dustAvailable(protoplanet): the limits are taken with
\* the protoplanet's mass itself, in solar masses, as the scalar.
GS_dustAvailable(bands, protoplanet) ==
    IF protoplanet.sma <= 0 THEN FALSE
    ELSE
    LET limits == GS_EffectLimits(protoplanet.sma, protoplanet.eccentricity,
                                  (protoplanet.mass * EccScale) \div SolarMass)
        reached == {i \in 1..Len(bands) : bands[i].outerEdge >= limits[1]}
    IN  IF reached = {} THEN FALSE
        ELSE LET band == CHOOSE i \in reached : \A j \in reached : i <= j
             IN  \/ bands[band].dustPresent
                 \/ \E j \in band..Len(bands) :
                        /\ \A k \in band..j : bands[k].innerEdge < limits[2]
                        /\ bands[j].dustPresent

\* GS_GrowthLoop collecting as if the disk had the default density.
GS_GrowthLoopDense(protoplanet, bands, density, newMass) ==
    LET reducedMass == EffectLimitScalar(newMass)
        p == WithLimits([protoplanet EXCEPT !.reducedMass = reducedMass],
                        GS_EffectLimits(protoplanet.sma, protoplanet.eccentricity,
                                        reducedMass))
    IN  [collected |-> collectDust(newMass, p, bands, DustDensityA, 1), protoplanet |-> p]

\* GenerationState::accreteDust, the growth loop (lines 67-76).  Result:
\* what the last collectDust call returned and the protoplanet it saw.
RECURSIVE GS_GrowthLoop(_, _, _, _)
GS_GrowthLoop(protoplanet, bands, density, newMass) ==
    LET oldMass == newMass
        reducedMass == EffectLimitScalar(oldMass)
        p == WithLimits([protoplanet EXCEPT !.reducedMass = reducedMass],
                        GS_EffectLimits(protoplanet.sma, protoplanet.eccentricity,
                                        reducedMass))
        collected == collectDust(oldMass, p, bands, density, 1)
    IN  IF collected.mass > 0
           /\ Abs(collected.mass - oldMass) * ConvergenceDivisor >= oldMass
        THEN GS_GrowthLoop(protoplanet, bands, density, collected.mass)
        ELSE [collected |-> collected, protoplanet |-> p]

\* GenerationState::updateDustLanes, first loop (lines 315-384): what one
\* band becomes.
GS_SplitBand(currentBand, protoplanet, gasRemains) ==
    LET r_inner == protoplanet.r_inner
        r_outer == protoplanet.r_outer
    IN  IF currentBand.innerEdge < r_inner /\ currentBand.outerEdge > r_outer
        THEN << [currentBand EXCEPT !.outerEdge = r_inner],
                Dust(r_inner, r_outer, FALSE, currentBand.gasPresent /\ gasRemains),
                Dust(r_outer, currentBand.outerEdge,
                     currentBand.dustPresent, currentBand.gasPresent) >>
        ELSE IF currentBand.innerEdge < r_outer /\ currentBand.outerEdge > r_outer
        THEN << Dust(currentBand.innerEdge, r_outer, FALSE,
                     currentBand.gasPresent /\ gasRemains),
                Dust(r_outer, currentBand.outerEdge,
                     currentBand.dustPresent, currentBand.gasPresent) >>
        ELSE IF currentBand.innerEdge < r_inner /\ currentBand.outerEdge > r_inner
        THEN << [currentBand EXCEPT !.outerEdge = r_inner],
                Dust(r_inner, currentBand.outerEdge, FALSE,
                     currentBand.gasPresent /\ gasRemains) >>
        ELSE IF currentBand.innerEdge >= r_inner /\ currentBand.outerEdge <= r_outer
        THEN << Dust(currentBand.innerEdge, currentBand.outerEdge, FALSE,
                     IF currentBand.gasPresent THEN gasRemains ELSE FALSE) >>
        ELSE << currentBand >>

RECURSIVE GS_SplitBands(_, _, _, _)
GS_SplitBands(bands, protoplanet, gasRemains, i) ==
    IF i > Len(bands) THEN << >>
    ELSE GS_SplitBand(bands[i], protoplanet, gasRemains)
             \o GS_SplitBands(bands, protoplanet, gasRemains, i + 1)

\* GenerationState::updateDustLanes: the second loop is that of the
\* Generator.
GS_updateDustLanes(bands, protoplanet, zone) ==
    LET gasRemains == protoplanet.mass < protoplanet.criticalMass
    IN  CoalesceBands(GS_SplitBands(bands, protoplanet, gasRemains, 1), zone, FALSE, 1)

(***************************************************************************)
(* The assertion in the last else of updateDustLanes' first loop.          *)
(***************************************************************************)
\* Generator.cpp 982-1034: the band matches none of the four cases.
ReachesAssertion(currentBand, protoplanet) ==
    LET r_inner == protoplanet.r_inner
        r_outer == protoplanet.r_outer
    IN  /\ ~(currentBand.innerEdge < r_inner /\ currentBand.outerEdge > r_outer)
        /\ ~(currentBand.innerEdge < r_outer /\ currentBand.outerEdge >= r_outer)
        /\ ~(currentBand.innerEdge <= r_inner /\ currentBand.outerEdge > r_inner)
        /\ ~(currentBand.innerEdge >= r_inner /\ currentBand.outerEdge <= r_outer)

\* GenerationState.cpp 315-369: the same with its strict comparisons.
GS_ReachesAssertion(currentBand, protoplanet) ==
    LET r_inner == protoplanet.r_inner
        r_outer == protoplanet.r_outer
    IN  /\ ~(currentBand.innerEdge < r_inner /\ currentBand.outerEdge > r_outer)
        /\ ~(currentBand.innerEdge < r_outer /\ currentBand.outerEdge > r_outer)
        /\ ~(currentBand.innerEdge < r_inner /\ currentBand.outerEdge > r_inner)
        /\ ~(currentBand.innerEdge >= r_inner /\ currentBand.outerEdge <= r_outer)

\* The asserted condition (Generator.cpp 1046, GenerationState.cpp 381).
HoleAssertion(currentBand, protoplanet) ==
    \/ currentBand.outerEdge < protoplanet.r_inner
    \/ currentBand.innerEdge > protoplanet.r_outer

\* GenerationState::coalescePlanetisimals, the scan for a collision (lines
\* 96-118): the index of the first planet hit, 0 when none.  Each planet
\* looked at leaves its own scalar in protoplanet.reducedMass.
RECURSIVE GS_FirstCollision(_, _, _, _)
GS_FirstCollision(planets, protoplanet, reducedMass, i) ==
    IF i > Len(planets) THEN 0
    ELSE
    LET planet == planets[i]
        unit == EccScale * EccScale
        diff == planet.sma - protoplanet.sma
        planetScalar == EffectLimitScalar(getMass(planet))
        dist1 == IF diff > 0
                 THEN protoplanet.sma * (EccScale + protoplanet.eccentricity)
                          * (EccScale + reducedMass) - protoplanet.sma * unit
                 ELSE protoplanet.sma * unit
                          - protoplanet.sma * (EccScale - protoplanet.eccentricity)
                              * (EccScale - reducedMass)
        dist2 == IF diff > 0
                 THEN planet.sma * unit
                          - planet.sma * (EccScale - planet.e) * (EccScale - planetScalar)
                 ELSE planet.sma * (EccScale + planet.e) * (EccScale + planetScalar)
                          - planet.sma * unit
    IN  IF (Abs(diff) * unit <= Abs(dist1)) \/ (Abs(diff) * unit <= Abs(dist2))
        THEN i
        ELSE GS_FirstCollision(planets, protoplanet, planetScalar, i + 1)

\* The merged protoplanet of GenerationState (lines 120-176): an e2 of 1
\* or more is reported and replaced by 0.
GS_MergedProtoplanet(planet, protoplanet) ==
    LET merged == MergedProtoplanet(planet, protoplanet)
    IN  [sma |-> merged.sma,
         eccentricity |-> IF merged.eccentricity >= EccScale THEN 0
                          ELSE merged.eccentricity,
         mass |-> merged.mass, reducedMass |-> 0, criticalMass |-> 0,
         dustMass |-> merged.dustMass, gasMass |-> merged.gasMass,
         r_inner |-> 0, r_outer |-> 0]

(***************************************************************************)
(* State.                                                                  *)
(***************************************************************************)
VARIABLES
    availableDust,     \* Generator::availableDust
    dustRemains,       \* Generator::dustRemains
    planetList,        \* Generator::planetList
    protoPlanetCount,  \* Generator::protoPlanetCount
    config,            \* Generator::config
    mt,                \* Generator::mt and seedVal: the seed and the draws made since
    generator,         \* which Generator object the program is using
    system,            \* SolarSystem::planet of the system passed to generate
    tape,              \* the values of the random streams drawn so far, by <<seed, position>>
    pc,                \* where the program is
    ret,               \* where accreteDust returns to
    protoplanet,       \* the protoplanet in accreteDust / coalescePlanetisimals
    protoplanetSeeds,  \* generate: local vector protoplanetSeeds
    seedIndex,         \* generate: position of the range-for over protoplanetSeeds
    protoplanets,      \* generate2: local vector protoplanets
    idx,               \* generate2: position of the range-for over protoplanets
    anyAccrued,        \* generate2: local anyAccrued
    entry,             \* which of generate / generate2 is running
    runs,              \* generate calls made so far
    runStart,          \* history: mt when the current generate call began
    sweep,             \* history: the last updateDustLanes call of the current run
    collision,         \* history: the last collision of the current run
    log,               \* history: the completed generate calls
    audit,             \* history: the protoplanets the current run submitted to accretion
    evaluation,        \* the Planet in Planet::evaluate and where that call is
    bode,              \* generateBodeSeeds: its vector, its locals and where it is
    star,              \* the Star handed to Star::evaluate
    covers,            \* the Planet in iterateSurfaceConditions: its surface covers
    kothari,           \* the KothariRadius call: its star, its arguments and its locals
    merger             \* a planet and a protoplanet in solar-mass units of 1e-8, and where they are

vars == << availableDust, dustRemains, planetList, protoPlanetCount, config, mt,
           generator, system, tape, pc, ret, protoplanet, protoplanetSeeds,
           seedIndex, protoplanets, idx, anyAccrued, entry, runs, runStart,
           sweep, collision, log, audit, evaluation, bode, star, covers, kothari,
           merger >>

\* The state of the accretion engine.
accretionVars == << availableDust, dustRemains, planetList, protoPlanetCount, config, mt,
                    generator, system, tape, pc, ret, protoplanet, protoplanetSeeds,
                    seedIndex, protoplanets, idx, anyAccrued, entry, runs, runStart,
                    sweep, collision, log, audit >>

\* The state outside the accretion engine: planet and star evaluation.
evalVars == << evaluation, bode, star, covers, kothari, merger >>

\* The locals of generate2's round-robin.
roundRobin == << protoplanets, idx, anyAccrued >>

(***************************************************************************)
(* The random stream.  std::mt19937_64 is a function of its seed: draw     *)
(* number n after mt.seed(v) is the same value every time.  `tape` holds   *)
(* the raw values already drawn; a draw at a new position may be any raw   *)
(* value and is remembered.                                                *)
(***************************************************************************)
Raw == 0..DrawMax
SeedValues == {DefaultSeed, 1}

\* The sequences of n raw values the next n draws can return.
DrawSeqs(n) ==
    {vals \in [1..n -> Raw] :
        /\ \A i \in 1..n : << mt.seed, mt.pos + i >> \in DOMAIN tape
                               => tape[<< mt.seed, mt.pos + i >>] = vals[i]
        /\ Cardinality(DOMAIN tape \cup {<< mt.seed, mt.pos + i >> : i \in 1..n})
               <= MaxDraws}

TapeAfter(vals) ==
    LET new == {<< mt.seed, mt.pos + i >> : i \in 1..Len(vals)}
    IN  [k \in DOMAIN tape \cup new |->
            IF k \in DOMAIN tape THEN tape[k] ELSE vals[k[2] - mt.pos]]

MtAfter(n) == [mt EXCEPT !.pos = mt.pos + n]

\* randomUniform(lowerBound, upperBound) of a raw value.
randomUniform(raw, lowerBound, upperBound) ==
    lowerBound + (raw * (upperBound - lowerBound)) \div DrawMax

\* randomEccentricity() of a raw value.
randomEccentricity(raw) == (raw * MaxRandomEccentricity) \div DrawMax

(***************************************************************************)
(* Inputs.                                                                 *)
(***************************************************************************)
ProtoplanetSeed(sma, e) == [semiMajorAxis |-> sma, eccentricity |-> e]

\* The Config values a caller passes: Config::protoplanetSeeds.
Configs ==
    { [protoplanetSeeds |-> << >>, protoplanetCount |-> 0],
      [protoplanetSeeds |-> << ProtoplanetSeed(3, 0), ProtoplanetSeed(5, 0) >>,
       protoplanetCount |-> 0],
      [protoplanetSeeds |-> << ProtoplanetSeed(1, 0), ProtoplanetSeed(4, 0 - 1) >>,
       protoplanetCount |-> 1],
      [protoplanetSeeds |-> << ProtoplanetSeed(4, 2), ProtoplanetSeed(3, 0) >>,
       protoplanetCount |-> 0] }

NoConfig == [protoplanetSeeds |-> << >>, protoplanetCount |-> 0]

protoplanetZone == << ProtoInner, ProtoOuter >>

NoSweep ==
    [called |-> FALSE, by |-> "", before |-> << >>, protoplanet |-> Protoplanet(0, 0, 0),
     collectInner |-> 0, collectOuter |-> 0]

\* No Planet is being evaluated.
NoEvaluation == [at |-> "none"]
NoBode == [at |-> "none"]
NoStar == [at |-> "none"]
NoCovers == [at |-> "none"]
NoKothari == [at |-> "none"]
NoMerger == [at |-> "none"]

NoAudit == [submitted |-> << >>, viable |-> 0]

NoCollision ==
    [pending |-> FALSE, done |-> FALSE, earlier |-> FALSE, count |-> 0,
     planet |-> << >>, protoplanet |-> << >>, inserted |-> << >>,
     merges |-> 0, listed |-> 0, dangling |-> 0, before |-> << >>]

Init ==
    /\ availableDust = << >>
    /\ dustRemains = FALSE
    /\ planetList = << >>
    /\ protoPlanetCount = 0
    /\ config = NoConfig
    /\ mt = [seed |-> DefaultSeed, pos |-> 0]
    /\ generator = 1
    /\ system = << >>
    /\ tape = << >>
    /\ pc = "idle"
    /\ ret = "idle"
    /\ protoplanet = Protoplanet(0, 0, 0)
    /\ protoplanetSeeds = << >>
    /\ seedIndex = 1
    /\ protoplanets = << >>
    /\ idx = 1
    /\ anyAccrued = FALSE
    /\ entry = "generate"
    /\ runs = 0
    /\ runStart = [seed |-> DefaultSeed, pos |-> 0]
    /\ sweep = NoSweep
    /\ collision = NoCollision
    /\ log = << >>
    /\ audit = NoAudit
    /\ evaluation = NoEvaluation
    /\ bode = NoBode
    /\ star = NoStar
    /\ covers = NoCovers
    /\ kothari = NoKothari
    /\ merger = NoMerger

(***************************************************************************)
(* Operations of the caller on the Generator object.                       *)
(***************************************************************************)
\* Generator::Generator(): a new object, used from now on.
Construct ==
    /\ pc = "idle"
    /\ runs < MaxRuns
    /\ generator <= runs      \* the caller makes at most one object per run
    /\ generator' = generator + 1
    /\ availableDust' = << >>
    /\ dustRemains' = FALSE
    /\ planetList' = << >>
    /\ protoPlanetCount' = 0
    /\ config' = NoConfig
    /\ mt' = [seed |-> DefaultSeed, pos |-> 0]
    /\ collision' = NoCollision
    /\ UNCHANGED << roundRobin, entry >>
    /\ UNCHANGED << system, tape, pc, ret, protoplanet, protoplanetSeeds, seedIndex,
                    runs, runStart, sweep, log >>
    /\ UNCHANGED audit
    /\ UNCHANGED evalVars

\* Generator::seed(seedVal_)
Seed(seedVal_) ==
    /\ pc = "idle"
    /\ runs < MaxRuns
    /\ mt # [seed |-> seedVal_, pos |-> 0]
    /\ mt' = [seed |-> seedVal_, pos |-> 0]
    /\ UNCHANGED << roundRobin, entry, collision >>
    /\ UNCHANGED << availableDust, dustRemains, planetList, protoPlanetCount, config,
                    generator, system, tape, pc, ret, protoplanet, protoplanetSeeds,
                    seedIndex, runs, runStart, sweep, log >>
    /\ UNCHANGED audit
    /\ UNCHANGED evalVars

(***************************************************************************)
(* Generator::generate.  The star passed in is already evaluated and       *)
(* Config::generateStar and generateBodeSeeds are false, so the call draws *)
(* nothing for the star.                                                   *)
(***************************************************************************)
NeedsEccentricity(s) == s.eccentricity < 0 \/ s.eccentricity > MaxSeedEccentricity

\* Lines 467-540: reset, copy the seeds (random eccentricity where needed),
\* one band over the dust zone.
Generate(config_) ==
    /\ pc = "idle"
    /\ runs < MaxRuns
    /\ LET given == config_.protoplanetSeeds
           needing == {i \in 1..Len(given) : NeedsEccentricity(given[i])}
           rank(i) == Cardinality({j \in needing : j <= i})
       IN  \E vals \in DrawSeqs(Cardinality(needing)) :
             /\ protoplanetSeeds' =
                    [i \in 1..Len(given) |->
                        IF i \in needing
                        THEN ProtoplanetSeed(given[i].semiMajorAxis,
                                             randomEccentricity(vals[rank(i)]))
                        ELSE given[i]]
             /\ tape' = TapeAfter(vals)
             /\ mt' = MtAfter(Len(vals))
    /\ system' = << >>
    /\ availableDust' = InitialDust
    /\ protoPlanetCount' = 0
    /\ config' = config_
    /\ dustRemains' = TRUE
    /\ seedIndex' = 1
    /\ pc' = "seeds"
    /\ runs' = runs + 1
    /\ runStart' = mt
    /\ sweep' = NoSweep
    /\ collision' = NoCollision
    /\ entry' = "generate"
    /\ UNCHANGED roundRobin
    /\ UNCHANGED << planetList, generator, ret, protoplanet, log >>
    /\ audit' = NoAudit
    /\ UNCHANGED evalVars

\* A seed loop that accepts every seed, inside the zone or not.
SeedAcceptedAnywhere(s, zone, remains) == remains

\* Line 551: the test a seed has to pass to be accreted.
SeedAccepted(s, zone, remains) ==
    /\ s.semiMajorAxis >= zone[1]
    /\ s.semiMajorAxis <= zone[2]
    /\ remains

\* Lines 550-570: one iteration of the loop over the seeds.
ApplySeed ==
    /\ pc = "seeds"
    /\ seedIndex <= Len(protoplanetSeeds)
    /\ LET s == protoplanetSeeds[seedIndex]
       IN  IF SeedAccepted(s, protoplanetZone, dustRemains)
           THEN /\ protoplanet' = Protoplanet(s.semiMajorAxis, s.eccentricity,
                                              ProtoplanetSeedMass)
                /\ pc' = "accreteDust"
                /\ ret' = "seeds"
                /\ audit' = [audit EXCEPT !.submitted =
                                 Append(@, [source |-> "seed", index |-> seedIndex])]
           ELSE UNCHANGED << protoplanet, pc, ret, audit >>
    /\ seedIndex' = seedIndex + 1
    /\ UNCHANGED << roundRobin, entry, collision >>
    /\ UNCHANGED << availableDust, dustRemains, planetList, protoPlanetCount, config, mt,
                    generator, system, tape, protoplanetSeeds, runs, runStart, sweep, log >>
    /\ UNCHANGED evalVars

\* The loop over the seeds ends.
SeedsApplied ==
    /\ pc = "seeds"
    /\ seedIndex > Len(protoplanetSeeds)
    /\ pc' = "random"
    /\ UNCHANGED << roundRobin, entry, collision >>
    /\ UNCHANGED << availableDust, dustRemains, planetList, protoPlanetCount, config, mt,
                    generator, system, tape, ret, protoplanet, protoplanetSeeds,
                    seedIndex, runs, runStart, sweep, log >>
    /\ UNCHANGED audit
    /\ UNCHANGED evalVars

\* Lines 578-586: one iteration of while (dustRemains), up to the call of
\* accreteDust.
RandomProtoplanet ==
    /\ pc = "random"
    /\ dustRemains
    /\ \E vals \in DrawSeqs(2) :
         /\ protoplanet' = Protoplanet(
                randomUniform(vals[1], protoplanetZone[1], protoplanetZone[2]),
                randomEccentricity(vals[2]), ProtoplanetSeedMass)
         /\ tape' = TapeAfter(vals)
         /\ mt' = MtAfter(2)
    /\ pc' = "accreteDust"
    /\ ret' = "random"
    /\ UNCHANGED << roundRobin, entry, collision >>
    /\ UNCHANGED << availableDust, dustRemains, planetList, protoPlanetCount, config,
                    generator, system, protoplanetSeeds, seedIndex, runs, runStart,
                    sweep, log >>
    /\ audit' = [audit EXCEPT !.submitted = Append(@, [source |-> "random", index |-> 0])]
    /\ UNCHANGED evalVars

\* Generator::accreteDust, lines 76-158, up to the call of
\* coalescePlanetisimals.
AccreteDust ==
    /\ pc = "accreteDust"
    /\ LET p0 == [protoplanet EXCEPT
                     !.criticalMass = CriticalLimit(protoplanet.sma, protoplanet.eccentricity)]
           loop == GrowthLoop(p0, availableDust, DustDensityA, 0)
           addedMass == loop.collected.mass
           p1 == IF addedMass > 0 THEN Grown(loop.protoplanet, loop.collected)
                 ELSE loop.protoplanet
           updated == updateDustLanes(availableDust, p1, protoplanetZone)
       IN  /\ protoplanet' = p1
           /\ IF addedMass > 0
              THEN /\ availableDust' = updated.dust
                   /\ dustRemains' = updated.dustRemains
                   /\ sweep' = [called |-> TRUE, by |-> "accreteDust",
                                before |-> availableDust, protoplanet |-> p1,
                                collectInner |-> loop.protoplanet.r_inner,
                                collectOuter |-> loop.protoplanet.r_outer]
              ELSE UNCHANGED << availableDust, dustRemains, sweep >>
           /\ IF p1.mass > ProtoplanetSeedMass
              THEN /\ protoPlanetCount' = protoPlanetCount + 1
                   /\ pc' = "coalescePlanetisimals"
                   /\ audit' = [audit EXCEPT !.viable =
                                    IF collision.pending THEN @ ELSE @ + 1]
              ELSE /\ UNCHANGED << protoPlanetCount, audit >>
                   /\ pc' = ret
    /\ UNCHANGED << roundRobin, entry, collision >>
    /\ UNCHANGED << planetList, config, mt, generator, system, tape, ret,
                    protoplanetSeeds, seedIndex, runs, runStart, log >>
    /\ UNCHANGED evalVars

\* Generator::coalescePlanetisimals, lines 215-374.  On a collision the
\* planet is removed and accreteDust is called with the merged protoplanet;
\* nothing follows that call but the two returns.
CoalescePlanetisimals ==
    /\ pc = "coalescePlanetisimals"
    /\ LET hit == FirstCollision(planetList, protoplanet)
       IN  IF hit # 0
           THEN /\ planetList' \in remove_if(planetList, hit)
                /\ protoplanet' = MergedProtoplanet(planetList[hit], protoplanet)
                /\ pc' = "accreteDust"
                /\ collision' = [pending |-> TRUE, done |-> FALSE,
                                 earlier |-> collision.earlier \/ planetList[hit].run < runs,
                                 count |-> Len(planetList),
                                 planet |-> planetList[hit], protoplanet |-> protoplanet,
                                 inserted |-> << >>,
                                 merges |-> IF collision.pending
                                            THEN collision.merges + 1 ELSE 1,
                                 listed |-> IF collision.pending
                                            THEN collision.listed ELSE Len(planetList),
                                 dangling |-> ReadsAfterErase(planetList, hit),
                                 before |-> planetList]
           ELSE LET newPlanet == Planet(protoplanet.sma, protoplanet.eccentricity,
                                        protoplanet.dustMass, protoplanet.gasMass, runs)
                IN  /\ planetList' = InsertPlanet(planetList, newPlanet)
                    /\ UNCHANGED protoplanet
                    /\ pc' = ret
                    /\ collision' = [collision EXCEPT
                                         !.pending = FALSE,
                                         !.done = collision.pending,
                                         !.inserted = IF collision.pending THEN newPlanet
                                                      ELSE << >>,
                                         !.merges = IF collision.pending THEN @ ELSE 0,
                                         !.listed = IF collision.pending THEN @
                                                    ELSE Len(planetList),
                                         !.dangling = 0,
                                         !.before = << >>]
    /\ UNCHANGED << roundRobin, entry >>
    /\ UNCHANGED << availableDust, dustRemains, protoPlanetCount, config, mt, generator,
                    system, tape, ret, protoplanetSeeds, seedIndex, runs, runStart,
                    sweep, log >>
    /\ UNCHANGED audit
    /\ UNCHANGED evalVars

(***************************************************************************)
(* Generator::generate2.                                                   *)
(***************************************************************************)
\* Lines 617-729: reset, the seeds in the zone become protoplanets, then
\* config.protoplanetCount random protoplanets, one band over the dust zone.
Generate2(config_) ==
    /\ pc = "idle"
    /\ runs < MaxRuns
    /\ LET given == config_.protoplanetSeeds
           needing == {i \in 1..Len(given) : NeedsEccentricity(given[i])}
           rank(i) == Cardinality({j \in needing : j <= i})
           count == config_.protoplanetCount
           nSeeds == Cardinality(needing)
       IN  \E vals \in DrawSeqs(nSeeds + 2 * count) :
             LET seeds == [i \in 1..Len(given) |->
                              IF i \in needing
                              THEN ProtoplanetSeed(given[i].semiMajorAxis,
                                                   randomEccentricity(vals[rank(i)]))
                              ELSE given[i]]
                 inZone == SelectSeq(seeds, LAMBDA s :
                               /\ s.semiMajorAxis >= protoplanetZone[1]
                               /\ s.semiMajorAxis <= protoplanetZone[2])
                 seeded == [i \in 1..Len(inZone) |->
                               Protoplanet(inZone[i].semiMajorAxis, inZone[i].eccentricity,
                                           ProtoplanetSeedMass)]
                 random == [i \in 1..count |->
                               Protoplanet(
                                   randomUniform(vals[nSeeds + 2 * i - 1],
                                                 protoplanetZone[1], protoplanetZone[2]),
                                   randomEccentricity(vals[nSeeds + 2 * i]),
                                   ProtoplanetSeedMass)]
             IN  /\ protoplanetSeeds' = seeds
                 /\ protoplanets' = seeded \o random
                 /\ tape' = TapeAfter(vals)
                 /\ mt' = MtAfter(Len(vals))
    /\ system' = << >>
    /\ availableDust' = InitialDust
    /\ protoPlanetCount' = 0
    /\ config' = config_
    /\ dustRemains' = TRUE
    /\ idx' = 1
    /\ anyAccrued' = FALSE
    /\ pc' = "accreteDust2"
    /\ entry' = "generate2"
    /\ runs' = runs + 1
    /\ runStart' = mt
    /\ sweep' = NoSweep
    /\ collision' = NoCollision
    /\ UNCHANGED << planetList, generator, ret, protoplanet, seedIndex, log >>
    /\ audit' = NoAudit
    /\ UNCHANGED evalVars

\* A protoplanet that is left as it is when it collects nothing.
StillActive(p) == p

\* Lines 207 and 756: a protoplanet that collected nothing stops accreting.
Deactivated(p) == [p EXCEPT !.active = FALSE]

\* Lines 735-770, one iteration of the for over protoplanets, with
\* Generator::accreteDust2 (lines 170-212) for an active protoplanet.
AccreteDust2 ==
    /\ pc = "accreteDust2"
    /\ idx <= Len(protoplanets)
    /\ LET p0 == [protoplanets[idx] EXCEPT
                     !.criticalMass = CriticalLimit(protoplanets[idx].sma,
                                                    protoplanets[idx].eccentricity)]
           p1 == WithLimits(p0, GetEffectLimits(p0.sma, p0.eccentricity, p0.mass))
           collected == collectDust(p1.mass, p1, availableDust, DustDensityA, 1)
           p2 == Grown(p1, collected)
           updated == updateDustLanes(availableDust, p2, protoplanetZone)
       IN  IF ~protoplanets[idx].active
           THEN UNCHANGED << protoplanets, anyAccrued, availableDust, dustRemains, sweep >>
           ELSE IF collected.mass > 0
           THEN /\ protoplanets' = [protoplanets EXCEPT ![idx] = p2]
                /\ anyAccrued' = TRUE
                /\ availableDust' = updated.dust
                /\ dustRemains' = updated.dustRemains
                /\ sweep' = [called |-> TRUE, by |-> "accreteDust2",
                             before |-> availableDust, protoplanet |-> p2,
                             collectInner |-> p1.r_inner, collectOuter |-> p1.r_outer]
           ELSE /\ protoplanets' = [protoplanets EXCEPT ![idx] = Deactivated(p1)]
                /\ UNCHANGED << anyAccrued, availableDust, dustRemains, sweep >>
    /\ idx' = idx + 1
    /\ UNCHANGED collision
    /\ UNCHANGED << planetList, protoPlanetCount, config, mt, generator, system, tape, pc,
                    ret, protoplanet, protoplanetSeeds, seedIndex, entry, runs, runStart,
                    log >>
    /\ UNCHANGED audit
    /\ UNCHANGED evalVars

\* The for over protoplanets ends: while (anyAccrued) starts it again.
NextRound ==
    /\ pc = "accreteDust2"
    /\ idx > Len(protoplanets)
    /\ anyAccrued
    /\ anyAccrued' = FALSE
    /\ idx' = 1
    /\ UNCHANGED collision
    /\ UNCHANGED << availableDust, dustRemains, planetList, protoPlanetCount, config, mt,
                    generator, system, tape, pc, ret, protoplanet, protoplanetSeeds,
                    seedIndex, protoplanets, entry, runs, runStart, sweep, log >>
    /\ UNCHANGED audit
    /\ UNCHANGED evalVars

\* A round in which nothing accreted ends the do-while.
RoundsDone ==
    /\ pc = "accreteDust2"
    /\ idx > Len(protoplanets)
    /\ ~anyAccrued
    /\ idx' = 1
    /\ pc' = "coalesce"
    /\ UNCHANGED collision
    /\ UNCHANGED << availableDust, dustRemains, planetList, protoPlanetCount, config, mt,
                    generator, system, tape, ret, protoplanet, protoplanetSeeds,
                    seedIndex, protoplanets, anyAccrued, entry, runs, runStart, sweep,
                    log >>
    /\ UNCHANGED audit
    /\ UNCHANGED evalVars

\* Lines 779-785: one iteration of the loop that hands the grown
\* protoplanets to coalescePlanetisimals.
CoalesceNext ==
    /\ pc = "coalesce"
    /\ idx <= Len(protoplanets)
    /\ IF protoplanets[idx].mass > ProtoplanetSeedMass
       THEN /\ protoplanet' = protoplanets[idx]
            /\ pc' = "coalescePlanetisimals"
            /\ ret' = "coalesce"
            /\ audit' = [audit EXCEPT !.viable = @ + 1]
       ELSE UNCHANGED << protoplanet, pc, ret, audit >>
    /\ idx' = idx + 1
    /\ UNCHANGED collision
    /\ UNCHANGED << availableDust, dustRemains, planetList, protoPlanetCount, config, mt,
                    generator, system, tape, protoplanetSeeds, seedIndex, protoplanets,
                    anyAccrued, entry, runs, runStart, sweep, log >>
    /\ UNCHANGED evalVars

\* That loop ends; while (dustRemains) follows.
CoalesceDone ==
    /\ pc = "coalesce"
    /\ idx > Len(protoplanets)
    /\ pc' = "random"
    /\ UNCHANGED collision
    /\ UNCHANGED << availableDust, dustRemains, planetList, protoPlanetCount, config, mt,
                    generator, system, tape, ret, protoplanet, protoplanetSeeds,
                    seedIndex, roundRobin, entry, runs, runStart, sweep, log >>
    /\ UNCHANGED audit
    /\ UNCHANGED evalVars

\* Lines 595-611: the planets get their orbital angles (four draws each,
\* kept as the stream position they were drawn at) and are copied to the
\* system.
Finalized(planets) ==
    [i \in 1..Len(planets) |->
        [planets[i] EXCEPT !.orbit = << mt.seed, mt.pos + 4 * (i - 1) >>]]

FinishGenerate ==
    /\ pc = "random"
    /\ ~dustRemains
    /\ planetList' = Finalized(planetList)
    /\ system' = Finalized(planetList)
    /\ mt' = MtAfter(4 * Len(planetList))
    /\ log' = Append(log, [generator |-> generator, start |-> runStart,
                           config |-> config, planet |-> Finalized(planetList),
                           entry |-> entry, run |-> runs,
                           protoPlanetCount |-> protoPlanetCount])
    /\ pc' = "idle"
    /\ UNCHANGED << roundRobin, entry, collision >>
    /\ UNCHANGED << availableDust, dustRemains, protoPlanetCount, config, generator,
                    tape, ret, protoplanet, protoplanetSeeds, seedIndex, runs,
                    runStart, sweep >>
    /\ UNCHANGED audit
    /\ UNCHANGED evalVars

Next ==
    \/ Construct
    \/ \E v \in SeedValues : Seed(v)
    \/ \E c \in Configs : Generate(c)
    \/ \E c \in Configs : Generate2(c)
    \/ ApplySeed
    \/ SeedsApplied
    \/ RandomProtoplanet
    \/ AccreteDust
    \/ CoalescePlanetisimals
    \/ AccreteDust2
    \/ NextRound
    \/ RoundsDone
    \/ CoalesceNext
    \/ CoalesceDone
    \/ FinishGenerate

Spec == Init /\ [][Next]_vars

\* The values of pc.
ControlPoints ==
    {"idle", "seeds", "random", "accreteDust", "coalescePlanetisimals",
     "accreteDust2", "coalesce"}

\* Control leaves `at`: the call that is active there returns or makes the
\* call it ends with.
ControlLeaves(at) == pc = at /\ pc' \in ControlPoints \ {at}

\* The program runs on: an accreteDust or coalescePlanetisimals call that
\* has been made is carried out.
FairSpec ==
    /\ Spec
    /\ WF_pc(ControlLeaves("accreteDust"))
    /\ WF_pc(ControlLeaves("coalescePlanetisimals"))

(***************************************************************************)
(* System::create.  The star is given (config.stellarMass > 0) and         *)
(* Config::generateBodeSeeds is false; config.seed is not 0.  The          *)
(* GenerationState lives for the call: its availableDust, dustRemains,     *)
(* planetList and mt are the variables of the same names, and `system` is  *)
(* System::planetList.                                                     *)
(***************************************************************************)
PlanetisimalSeed(sma, e) == << sma, e >>

\* The Config and planetSeed values a caller passes to System::create.
SystemConfigs ==
    { [seed |-> v, dustDensity |-> d, planetSeed |-> ps] :
        v \in SeedValues, d \in {0, DustDensityA},
        ps \in { << >>,
                 << PlanetisimalSeed(3, 0), PlanetisimalSeed(5, 0) >>,
                 << PlanetisimalSeed(1, 0), PlanetisimalSeed(4, EccScale) >> } }

\* System::create, lines 47-98 and 154, with the GenerationState
\* constructor and finalize().
Create(appConfig) ==
    /\ pc = "idle"
    /\ runs < MaxRuns
    /\ system' = << >>
    /\ protoPlanetCount' = 0
    /\ config' = appConfig
    /\ mt' = [seed |-> appConfig.seed, pos |-> 0]
    /\ planetList' = << >>
    /\ availableDust' = InitialDust
    /\ dustRemains' = TRUE
    /\ seedIndex' = 1
    /\ pc' = "distributePlanetaryMass"
    /\ entry' = "create"
    /\ runs' = runs + 1
    /\ runStart' = [seed |-> appConfig.seed, pos |-> 0]
    /\ sweep' = NoSweep
    /\ collision' = NoCollision
    /\ UNCHANGED << generator, tape, ret, protoplanet, protoplanetSeeds, roundRobin, log >>
    /\ audit' = NoAudit
    /\ UNCHANGED evalVars

\* System::distributePlanetaryMass, lines 165-203: one iteration of
\* while (state.dustAvailable()), up to the call of accreteDust.
DistributePlanetaryMass ==
    /\ pc = "distributePlanetaryMass"
    /\ dustRemains
    /\ LET planetSeed == config.planetSeed
           seeded == seedIndex <= Len(planetSeed)
           inZone == /\ seeded
                     /\ planetSeed[seedIndex][1] >= protoplanetZone[1]
                     /\ planetSeed[seedIndex][1] <= protoplanetZone[2]
           randomE == inZone /\ (planetSeed[seedIndex][2] >= EccScale
                                    \/ planetSeed[seedIndex][2] < 0)
           draws == IF ~seeded THEN 2 ELSE IF randomE THEN 1 ELSE 0
       IN  \E vals \in DrawSeqs(draws) :
             LET sma == IF ~seeded
                        THEN randomUniform(vals[1], protoplanetZone[1], protoplanetZone[2])
                        ELSE IF inZone THEN planetSeed[seedIndex][1] ELSE 0 - 1
                 e == IF ~seeded THEN randomEccentricity(vals[2])
                      ELSE IF randomE THEN randomEccentricity(vals[1])
                      ELSE IF inZone THEN planetSeed[seedIndex][2] ELSE 0
                 p == GS_Protoplanet(sma, e, ProtoplanetSeedMass)
             IN  /\ protoplanet' = p
                 /\ tape' = TapeAfter(vals)
                 /\ mt' = MtAfter(draws)
                 /\ seedIndex' = IF seeded THEN seedIndex + 1 ELSE seedIndex
                 /\ pc' = IF GS_dustAvailable(availableDust, p)
                          THEN "GenerationState::accreteDust"
                          ELSE "distributePlanetaryMass"
    /\ ret' = "distributePlanetaryMass"
    /\ UNCHANGED << availableDust, dustRemains, planetList, protoPlanetCount, config,
                    generator, system, protoplanetSeeds, roundRobin, entry, runs,
                    runStart, sweep, collision, log >>
    /\ UNCHANGED audit
    /\ UNCHANGED evalVars

\* GenerationState::accreteDust, lines 59-88, up to the call of
\* coalescePlanetisimals; on return distributePlanetaryMass counts the
\* protoplanet.
GS_AccreteDust ==
    /\ pc = "GenerationState::accreteDust"
    /\ LET p0 == [protoplanet EXCEPT
                     !.criticalMass = CriticalLimit(protoplanet.sma, protoplanet.eccentricity)]
           loop == GS_GrowthLoop(p0, availableDust, config.dustDensity, p0.mass)
           p1 == [loop.protoplanet EXCEPT
                     !.mass = @ + loop.collected.mass,
                     !.dustMass = @ + loop.collected.dustMass,
                     !.gasMass = @ + loop.collected.gasMass]
           updated == GS_updateDustLanes(availableDust, p1, protoplanetZone)
       IN  /\ protoplanet' = p1
           /\ availableDust' = updated.dust
           /\ dustRemains' = updated.dustRemains
           /\ sweep' = [called |-> TRUE, by |-> "GenerationState::accreteDust",
                        before |-> availableDust, protoplanet |-> p1,
                        collectInner |-> p1.r_inner, collectOuter |-> p1.r_outer]
           /\ IF p1.mass > ProtoplanetSeedMass
              THEN /\ pc' = "GenerationState::coalescePlanetisimals"
                   /\ UNCHANGED protoPlanetCount
              ELSE /\ pc' = ret
                   /\ protoPlanetCount' = protoPlanetCount + 1
    /\ UNCHANGED << planetList, config, mt, generator, system, tape, ret,
                    protoplanetSeeds, seedIndex, roundRobin, entry, runs, runStart,
                    collision, log >>
    /\ UNCHANGED audit
    /\ UNCHANGED evalVars

\* GenerationState::coalescePlanetisimals, lines 91-229.
GS_CoalescePlanetisimals ==
    /\ pc = "GenerationState::coalescePlanetisimals"
    /\ LET hit == GS_FirstCollision(planetList, protoplanet, protoplanet.reducedMass, 1)
       IN  IF hit # 0
           THEN /\ planetList' \in remove_if(planetList, hit)
                /\ protoplanet' = GS_MergedProtoplanet(planetList[hit], protoplanet)
                /\ pc' = "GenerationState::accreteDust"
                /\ collision' = [pending |-> TRUE, done |-> FALSE,
                                 earlier |-> collision.earlier \/ planetList[hit].run < runs,
                                 count |-> Len(planetList),
                                 planet |-> planetList[hit], protoplanet |-> protoplanet,
                                 inserted |-> << >>,
                                 merges |-> IF collision.pending
                                            THEN collision.merges + 1 ELSE 1,
                                 listed |-> IF collision.pending
                                            THEN collision.listed ELSE Len(planetList),
                                 dangling |-> ReadsAfterErase(planetList, hit),
                                 before |-> planetList]
                /\ UNCHANGED protoPlanetCount
           ELSE LET newPlanet == Planet(protoplanet.sma, protoplanet.eccentricity,
                                        protoplanet.dustMass, protoplanet.gasMass, runs)
                IN  /\ planetList' = InsertPlanet(planetList, newPlanet)
                    /\ UNCHANGED protoplanet
                    /\ pc' = ret
                    /\ protoPlanetCount' = protoPlanetCount + 1
                    /\ collision' = [collision EXCEPT
                                         !.pending = FALSE,
                                         !.done = collision.pending,
                                         !.inserted = IF collision.pending THEN newPlanet
                                                      ELSE << >>,
                                         !.merges = IF collision.pending THEN @ ELSE 0,
                                         !.listed = IF collision.pending THEN @
                                                    ELSE Len(planetList),
                                         !.dangling = 0,
                                         !.before = << >>]
    /\ UNCHANGED << availableDust, dustRemains, config, mt, generator, system, tape, ret,
                    protoplanetSeeds, seedIndex, roundRobin, entry, runs, runStart,
                    sweep, log >>
    /\ UNCHANGED audit
    /\ UNCHANGED evalVars

\* System::distributePlanetaryMass, line 206: the loop has ended and the
\* planets move to the System.
MovePlanets ==
    /\ pc = "distributePlanetaryMass"
    /\ ~dustRemains
    /\ system' = planetList
    /\ planetList' = << >>
    /\ log' = Append(log, [generator |-> generator, start |-> runStart,
                           config |-> config, planet |-> planetList,
                           entry |-> entry, run |-> runs,
                           protoPlanetCount |-> protoPlanetCount])
    /\ pc' = "idle"
    /\ UNCHANGED << availableDust, dustRemains, protoPlanetCount, config, mt, generator,
                    tape, ret, protoplanet, protoplanetSeeds, seedIndex, roundRobin,
                    entry, runs, runStart, sweep, collision >>
    /\ UNCHANGED audit
    /\ UNCHANGED evalVars

SystemNext ==
    \/ \E c \in SystemConfigs : Create(c)
    \/ DistributePlanetaryMass
    \/ GS_AccreteDust
    \/ GS_CoalescePlanetisimals
    \/ MovePlanets

SystemSpec == Init /\ [][SystemNext]_vars

(***************************************************************************)
(* Planet::evaluate (Planet.cpp 455-877).  Masses are in 1/MassUnit Earth  *)
(* masses, temperatures in 1/TempUnit Kelvin, the Earth similarity index   *)
(* and its ratings in hundredths, radius, density and escape velocity in   *)
(* tenths of the Earth's.  The physics that produces a number from the     *)
(* orbit and the star (CriticalLimit, minimumMolecularWeight, the surface  *)
(* pressure, each pass of updateSurfaceConditions, the gas lives) is an    *)
(* input drawn where the code computes it; the control flow that uses the  *)
(* number is the code's.  The planet is evaluated at 1 AU.                 *)
(***************************************************************************)
MassUnit == 10000
TempUnit == 8

\* static constexpr int MaxConvergenceIterations = 25
MaxConvergenceIterations == 25
\* 0.25f Kelvin
ConvergenceTolerance == 2
\* 1 / GaseousPlanetThreshold
GaseousPlanetDivisor == 20
\* 1 / IcePlanetThreshold
IcePlanetDivisor == 1000000
\* minMolecularWeight <= 4.0f
RetainedWeightLimit == 4
\* minMolecularWeight <= 2.0f
HydrogenWeightLimit == 2
\* surfacePressure > 6000.0f, millibar
GasDwarfPressure == 6000
\* surfacePressure < 1.0f, millibar
AtmospherePressure == 1
\* 0.001 Earth masses
AsteroidMassLimit == 10
\* 2.04 Earth masses
RockyTransition == 20400
\* 0.414 Jovian masses
IceGiantTransition == 1315846
\* 13.0 Jovian masses
BrownDwarfTransition == 41318847
\* K of OrbitalDominance
OrbitalDominanceK == 807
\* 273.15 + 14.0 Kelvin
EarthAverageTemperature == 2297
\* 273.15 Kelvin
FreezingPointWater == 2185
\* calculateEarthSimilarity() > 0.50f
AtmosphereSimilarity == 50
\* The Earth's radius, density and escape velocity
EarthValue == 10

\* The planets handed to evaluate: dust and gas mass.  Gas is held only by
\* the heaviest core.
PlanetMasses ==
    { << 5, 0 >>, << 12, 0 >>, << 20000, 0 >>, << 20000, 500 >>, << 20000, 3000 >>,
      << 20000, 1300000 >>, << 20000, 41300000 >> }
\* CriticalLimit(semimajorAxis, eccentricity, luminosity)
CriticalLimits == {10000, 25000}
\* minimumMolecularWeight(star.getAge())
MolecularWeights == {2, 4, 5}
\* The part of the gas lost as hydrogen and helium, percent
LossPercents == {0, 50}
\* calculateSurfacePressure: millibar
Pressures == {0, 6001}
\* meanSurfaceTemperature after a pass of updateSurfaceConditions
Temperatures == {2297, 2298, 2300}
\* hydrosphere and iceCoverage after the last pass, percent
Surfaces ==
    { [hydrosphere |-> 0, iceCoverage |-> 0], [hydrosphere |-> 50, iceCoverage |-> 0],
      [hydrosphere |-> 96, iceCoverage |-> 0], [hydrosphere |-> 4, iceCoverage |-> 96] }
\* The oxygen rating of a synthesized atmosphere
OxygenRatings == {40, 100}
\* What an earthSimilarityIndex that was never written can hold
Indeterminate == {50, 250}

\* Planet::isGaseous()
isGaseous(type) == type \in {"Gaseous", "IceGiant", "GasGiant", "BrownDwarf"}

\* KothariRadius, VolumeDensity and EscapeVelocity of a body of this mass
KothariBody(totalMass) ==
    IF totalMass < MassUnit
    THEN [radius |-> 1, density |-> 5, escapeVelocity |-> 1]
    ELSE IF totalMass <= 10 * RockyTransition
    THEN [radius |-> 12, density |-> 11, escapeVelocity |-> 13]
    ELSE [radius |-> 100, density |-> 2, escapeVelocity |-> 50]

\* One rating of calculateEarthSimilarity: 1 - |x - earth| / (x + earth).
\* The exponent weight / NumberOfWeights maps [0, 1] onto [0, 1].
Rating(x, earth) == 100 - (100 * Abs(x - earth)) \div (x + earth)

\* Planet::calculateEarthSimilarity(), lines 314-351
calculateEarthSimilarity(type, body, temperature, oxygenRating) ==
    IF isGaseous(type) \/ type = "AsteroidBelt" THEN 0
    ELSE LET radiusRating == Rating(body.radius, EarthValue)
             densityRating == Rating(body.density, EarthValue)
             escapeVelocityRating == Rating(body.escapeVelocity, EarthValue)
             surfaceTempRating == Rating(temperature, EarthAverageTemperature)
             Times(a, b) == (a * b) \div 100
         IN  Times(Times(Times(Times(radiusRating, densityRating), escapeVelocityRating),
                         surfaceTempRating), oxygenRating)

\* Lines 609-630: the kind of gaseous planet.
GaseousType(totalMass) ==
    IF totalMass > BrownDwarfTransition THEN "BrownDwarf"
    ELSE IF totalMass > IceGiantTransition THEN "GasGiant"
    ELSE "IceGiant"

\* A first classification that asks for the retention of hydrogen.
FirstTypeHydrogen(dustMass, gasMass, criticalLimit, minMolecularWeight) ==
    LET totalMass == dustMass + gasMass
    IN  IF dustMass > criticalLimit /\ gasMass * GaseousPlanetDivisor > totalMass
        THEN IF minMolecularWeight <= HydrogenWeightLimit /\ totalMass > RockyTransition
             THEN "Gaseous" ELSE "Rocky"
        ELSE "Rocky"

\* Lines 492-516: the first classification.
FirstType(dustMass, gasMass, criticalLimit, minMolecularWeight) ==
    LET totalMass == dustMass + gasMass
    IN  IF dustMass > criticalLimit /\ gasMass * GaseousPlanetDivisor > totalMass
        THEN IF minMolecularWeight <= RetainedWeightLimit /\ totalMass > RockyTransition
             THEN "Gaseous" ELSE "Rocky"
        ELSE "Rocky"

\* OrbitalDominance(totalMass, 1 AU) <= 1.0f
NotDominant(totalMass) == totalMass <= MassUnit \div OrbitalDominanceK

\* Lines 697-777: the kind of rocky planet.
RockyType(totalMass, surfacePressure, surface, temperature) ==
    IF surfacePressure < AtmospherePressure
    THEN IF totalMass < AsteroidMassLimit THEN "AsteroidBelt"
         ELSE IF NotDominant(totalMass) THEN "DwarfPlanet"
         ELSE "Rocky"
    ELSE IF NotDominant(totalMass) THEN "DwarfPlanet"
    ELSE IF surface.hydrosphere > 95 THEN "Ocean"
    ELSE IF surface.iceCoverage > 95 \/ temperature < FreezingPointWater THEN "IcePlanet"
    ELSE IF surface.hydrosphere > 5 THEN "Terrestrial"
    ELSE "Rocky"

\* A loop that is left as soon as the temperature changes.
ConvergedOnChange(previousTemperature, meanSurfaceTemperature) ==
    Abs(previousTemperature - meanSurfaceTemperature) > 0

\* The test of the convergence loop, line 986.
Converged(previousTemperature, meanSurfaceTemperature) ==
    Abs(previousTemperature - meanSurfaceTemperature) < ConvergenceTolerance

\* Lines 526-530: a rocky planet that holds gas is looked at again.
GasDwarfCandidate(gasMass, totalMass) ==
    gasMass > totalMass \div IcePlanetDivisor /\ totalMass > RockyTransition

\* Planet::evaluate up to the convergence loop: the first classification, the
\* loss of hydrogen and helium, the second look at a gas dwarf, the kind of
\* gaseous planet, and for a rocky planet calculateSurfacePressure and the
\* first two lines of iterateSurfaceConditions.  A gaseous planet is done
\* here; nothing on its path writes earthSimilarityIndex, which the Planet
\* constructor and reset() leave as it was: without a value in a new Planet,
\* with the value of the evaluation before in one that was reset.
Evaluate ==
    /\ evaluation.at = "none"
    /\ \E m \in PlanetMasses, criticalLimit \in CriticalLimits,
          weight \in MolecularWeights, weightAfter \in MolecularWeights,
          lossPercent \in LossPercents, dwarfPressure \in Pressures,
          pressure \in Pressures, t \in Temperatures,
          unset \in (IF "earthSimilarityIndex" \in DOMAIN evaluation
                     THEN {evaluation.earthSimilarityIndex} ELSE Indeterminate) :
        LET dustMass == m[1]
            firstType == FirstType(dustMass, m[2], criticalLimit, weight)
            candidate == firstType = "Rocky" /\ GasDwarfCandidate(m[2], dustMass + m[2])
            gasMass == m[2] - (m[2] \div 100) * lossPercent
            totalMass == dustMass + gasMass
            gasDwarf == candidate /\ dwarfPressure > GasDwarfPressure
                            /\ weightAfter <= HydrogenWeightLimit
            gaseous == firstType = "Gaseous" \/ gasDwarf
            given == [dustMass |-> dustMass, gasMass |-> m[2],
                      criticalLimit |-> criticalLimit, minMolecularWeight |-> weight]
        IN  /\ candidate \/ (lossPercent = 0 /\ dwarfPressure = 0)
            /\ IF lossPercent = 0 THEN weightAfter = weight ELSE weightAfter >= weight
            /\ gaseous => pressure = 0 /\ t = EarthAverageTemperature
            /\ evaluation' =
                 IF gaseous
                 THEN [at |-> "done", given |-> given, gasMass |-> gasMass,
                       totalMass |-> totalMass, minMolecularWeight |-> weightAfter,
                       type |-> GaseousType(totalMass), surfacePressure |-> dwarfPressure,
                       looped |-> FALSE, converged |-> FALSE, reported |-> FALSE,
                       meanSurfaceTemperature |-> 0, earthSimilarityIndex |-> unset,
                       similarityWritten |-> FALSE]
                 ELSE [at |-> "surface", given |-> given, gasMass |-> gasMass,
                       totalMass |-> totalMass, minMolecularWeight |-> weightAfter,
                       type |-> "Rocky", surfacePressure |-> pressure,
                       iterations |-> 0, converged |-> FALSE,
                       previousTemperature |-> t, meanSurfaceTemperature |-> t,
                       earthSimilarityIndex |-> unset]
    /\ UNCHANGED << accretionVars, bode, star, covers, kothari, merger >>

\* One pass of the loop of iterateSurfaceConditions, lines 980-992.
IterateSurfaceConditions ==
    /\ evaluation.at = "surface"
    /\ ~evaluation.converged
    /\ evaluation.iterations < MaxConvergenceIterations
    /\ \E t \in Temperatures :
        evaluation' =
            [evaluation EXCEPT !.previousTemperature = evaluation.meanSurfaceTemperature,
                               !.meanSurfaceTemperature = t,
                               !.iterations = @ + 1,
                               !.converged =
                                   Converged(evaluation.meanSurfaceTemperature, t)]
    /\ UNCHANGED << accretionVars, bode, star, covers, kothari, merger >>

\* The loop is left: by break, or because i reached MaxConvergenceIterations.
LoopLeft ==
    /\ evaluation.at = "surface"
    /\ evaluation.converged \/ evaluation.iterations >= MaxConvergenceIterations

\* The end of iterateSurfaceConditions (lines 994-999) and the rest of
\* Planet::evaluate for a rocky planet (lines 680-877).  The printf of lines
\* 995-998 is under getVerbose() alone.  earthSimilarityIndex is written on
\* line 723 only.
FinishEvaluate ==
    /\ LoopLeft
    /\ \E verbose \in BOOLEAN, surface \in Surfaces, gases \in BOOLEAN,
          oxygenRating \in OxygenRatings :
        LET body == KothariBody(evaluation.totalMass)
            firstStab == calculateEarthSimilarity("Rocky", body,
                             evaluation.meanSurfaceTemperature, 100)
            type == RockyType(evaluation.totalMass, evaluation.surfacePressure, surface,
                              evaluation.meanSurfaceTemperature)
            written == evaluation.surfacePressure >= AtmospherePressure
        IN  /\ gases => firstStab > AtmosphereSimilarity
            /\ IF gases THEN TRUE ELSE oxygenRating = 100
            /\ written \/ (surface.hydrosphere = 0 /\ surface.iceCoverage = 0)
            /\ evaluation' =
                 [at |-> "done", given |-> evaluation.given, gasMass |-> evaluation.gasMass,
                  totalMass |-> evaluation.totalMass,
                  minMolecularWeight |-> evaluation.minMolecularWeight,
                  type |-> type, surfacePressure |-> evaluation.surfacePressure,
                  looped |-> TRUE, converged |-> evaluation.converged,
                  reported |-> verbose,
                  meanSurfaceTemperature |-> evaluation.meanSurfaceTemperature,
                  earthSimilarityIndex |->
                      IF written
                      THEN calculateEarthSimilarity("Rocky", body,
                               evaluation.meanSurfaceTemperature, oxygenRating)
                      ELSE evaluation.earthSimilarityIndex,
                  similarityWritten |-> written]
    /\ UNCHANGED << accretionVars, bode, star, covers, kothari, merger >>

\* Planet::reset() on the evaluated planet, which is then given its orbit and
\* masses again.  reset() gives every member it names its default;
\* earthSimilarityIndex is not among them.
Reset ==
    /\ evaluation.at = "done"
    /\ evaluation' = [at |-> "none",
                      earthSimilarityIndex |-> evaluation.earthSimilarityIndex]
    /\ UNCHANGED << accretionVars, bode, star, covers, kothari, merger >>

PlanetNext ==
    \/ Reset
    \/ Evaluate
    \/ IterateSurfaceConditions
    \/ FinishEvaluate

PlanetSpec == Init /\ [][PlanetNext]_vars

(***************************************************************************)
(* Generator::generateBodeSeeds (Generator.cpp 834-942).  Distances are in *)
(* hundredths of an AU.  A seed is named by its n; its eccentricity, one   *)
(* random draw per seed, steers nothing here and is left out.  The vector  *)
(* is the caller's local protoplanetSeeds, empty when the call begins      *)
(* (Generator.cpp 512 and 532-535, 662 and 683-686).                       *)
(***************************************************************************)
\* A * (B + f(theta)) for n = 0: the ecosphere-scaled position
BodeFirst == {90, 100}
\* Star::getProtoplanetZone() of the stars tried
BodeZones == { << 30, 600 >>, << 60, 300 >>, << 120, 600 >>, << 30, 1000 >> }

RECURSIVE Pow(_, _)
Pow(b, e) == IF e = 0 THEN 1 ELSE b * Pow(b, e - 1)

\* BodeSequence(n, A, B, alpha, beta): the position of seed n, with 1.7275
\* taken as 7/4 and f(theta) as it is for n = 0.
BodeSequence(n, first) ==
    IF n >= 0 THEN (first * Pow(7, n)) \div Pow(4, n)
    ELSE (first * Pow(4, 0 - n)) \div Pow(7, 0 - n)

BodeSeed(n, first) == [n |-> n, semiMajorAxis |-> BodeSequence(n, first)]

\* The element at index k of a std::vector.
At(vector, k) == vector[k + 1]

\* std::swap(vector[j], vector[k])
Swap(vector, j, k) ==
    [vector EXCEPT ![j + 1] = vector[k + 1], ![k + 1] = vector[j + 1]]

\* A draw over the whole vector.
AnyIndex(size) == 0..(size - 1)

\* randomUniformInt(1ull, protoplanetSeeds.size() - 1u), bounds included
OtherIndices(size) == 1..(size - 1)

\* Lines 834-888: A, B and a are drawn and the n = 0 seed is placed.
GenerateBodeSeeds ==
    /\ bode.at \in {"none", "done"}
    /\ \E first \in BodeFirst, zone \in BodeZones :
        bode' = [at |-> "collect", first |-> first, protoplanetZone |-> zone,
                 protoplanetSeeds |-> << BodeSeed(0, first) >>, n |-> 1]
    /\ UNCHANGED << accretionVars, evaluation, star, covers, kothari, merger >>

\* Lines 890-923: one pass of the do-while, seeds -n and n.
BodePass ==
    /\ bode.at = "collect"
    /\ LET inner == BodeSeed(0 - bode.n, bode.first)
           outer == BodeSeed(bode.n, bode.first)
           addInner == inner.semiMajorAxis >= bode.protoplanetZone[1]
           addOuter == outer.semiMajorAxis <= bode.protoplanetZone[2]
           seeds == bode.protoplanetSeeds
                        \o (IF addInner THEN << inner >> ELSE << >>)
                        \o (IF addOuter THEN << outer >> ELSE << >>)
       IN  bode' =
             IF addInner \/ addOuter
             THEN [bode EXCEPT !.protoplanetSeeds = seeds, !.n = @ + 1]
             ELSE [at |-> "shuffle", protoplanetSeeds |-> seeds, generated |-> seeds,
                   i |-> 1]
    /\ UNCHANGED << accretionVars, evaluation, star, covers, kothari, merger >>

\* Lines 927-941: one pass of the reordering loop.
BodeSwap ==
    /\ bode.at = "shuffle"
    /\ bode.i < Len(bode.protoplanetSeeds) - 1
    /\ \E otherIdx \in OtherIndices(Len(bode.protoplanetSeeds)) :
        bode' = [bode EXCEPT !.protoplanetSeeds =
                                 IF bode.i # otherIdx THEN Swap(@, bode.i, otherIdx) ELSE @,
                             !.i = @ + 1]
    /\ UNCHANGED << accretionVars, evaluation, star, covers, kothari, merger >>

\* Line 927 when the condition fails, and the return.
BodeReturn ==
    /\ bode.at = "shuffle"
    /\ ~(bode.i < Len(bode.protoplanetSeeds) - 1)
    /\ bode' = [at |-> "done", protoplanetSeeds |-> bode.protoplanetSeeds,
                generated |-> bode.generated]
    /\ UNCHANGED << accretionVars, evaluation, star, covers, kothari, merger >>

BodeNext ==
    \/ GenerateBodeSeeds
    \/ BodePass
    \/ BodeSwap
    \/ BodeReturn

BodeSpec == Init /\ [][BodeNext]_vars

(***************************************************************************)
(* Star::evaluate, the age (Star.cpp 120-152).  Ages are in units of 1e7   *)
(* years, mass and luminosity in 1/10000 of the Sun's.                     *)
(***************************************************************************)
\* static constexpr double MinimumStellarAge = 1.0e9
MinimumStellarAge == 100
\* static constexpr double MaximumStellarAge = 6.0e9
MaximumStellarAge == 600
\* 1.0e10 years, times the 1e7 years of the unit
SolarLifetime == 1000

\* Rows of stellarInfo: mass and pow(10, logL).
StellarInfo ==
    { [type |-> "B5V", mass |-> 47000, luminosity |-> 5888437],
      [type |-> "A0V", mass |-> 21800, luminosity |-> 380189],
      [type |-> "A2V", mass |-> 19800, luminosity |-> 239883],
      [type |-> "A3V", mass |-> 18600, luminosity |-> 169824],
      [type |-> "F0V", mass |-> 16100, luminosity |-> 72444],
      [type |-> "G2V", mass |-> 10000, luminosity |-> 10233],
      [type |-> "K5V", mass |-> 7000, luminosity |-> 1738],
      [type |-> "M9V", mass |-> 790, luminosity |-> 3] }

\* The ages a caller sets with setAge before evaluate.
GivenAges == {1, 50, 100, 300, 600, 700}

\* std::min(MaximumStellarAge, 1.0e10 * (massSolar / luminositySolar))
maximumStellarAge(si) == Min(MaximumStellarAge, (SolarLifetime * si.mass) \div si.luminosity)

\* Lines 151-152: std::max with the minimum, then std::min with the maximum.
Clamped(maximumAge, ageYears) == Min(maximumAge, Max(MinimumStellarAge, ageYears))

\* randomUniform(lowerBound, upperBound): values of the range.  With
\* lowerBound > upperBound std::uniform_real_distribution is used outside
\* its precondition: the call may give any value between the two, or stop
\* the program where the library checks its arguments.
randomUniformAge(lowerBound, upperBound) ==
    IF lowerBound <= upperBound
    THEN {lowerBound, (lowerBound + upperBound) \div 2, upperBound}
    ELSE {upperBound, (lowerBound + upperBound) \div 2, lowerBound}

MayStop(lowerBound, upperBound) ==
    IF lowerBound <= upperBound THEN {FALSE} ELSE BOOLEAN

\* Star::Star(type_, subtype_): ageYears is 0.0.
SetType ==
    /\ star.at \in {"none", "evaluated", "stopped"}
    /\ \E si \in StellarInfo :
        star' = [at |-> "typed", info |-> si, ageYears |-> 0]
    /\ UNCHANGED << accretionVars, evaluation, bode, covers, kothari, merger >>

\* Star::setAge before evaluate.
SetAge ==
    /\ star.at = "typed"
    /\ star.ageYears = 0
    /\ \E a \in GivenAges : star' = [star EXCEPT !.ageYears = a]
    /\ UNCHANGED << accretionVars, evaluation, bode, covers, kothari, merger >>

\* Star::evaluate(generator) on a star not yet evaluated, lines 127-152.
StarEvaluate ==
    /\ star.at = "typed"
    /\ \E withGenerator \in BOOLEAN :
        LET maximumAge == maximumStellarAge(star.info)
            ageRange == maximumAge - MinimumStellarAge
            lowerBound == MinimumStellarAge + ageRange \div 4
            upperBound == MinimumStellarAge + (3 * ageRange) \div 4
            random == star.ageYears = 0 /\ withGenerator
            drawn == IF star.ageYears # 0 THEN {star.ageYears}
                     ELSE IF ~withGenerator
                     THEN {(maximumAge + MinimumStellarAge) \div 2}
                     ELSE randomUniformAge(lowerBound, upperBound)
            stops == IF random THEN MayStop(lowerBound, upperBound) ELSE {FALSE}
        IN  \E a \in drawn, stopped \in stops :
              star' = IF stopped
                      THEN [at |-> "stopped", info |-> star.info]
                      ELSE [at |-> "evaluated", info |-> star.info,
                            given |-> star.ageYears, withGenerator |-> withGenerator,
                            ageYears |-> Clamped(maximumAge, a)]
    /\ UNCHANGED << accretionVars, evaluation, bode, covers, kothari, merger >>

StarNext ==
    \/ SetType
    \/ SetAge
    \/ StarEvaluate

StarSpec == Init /\ [][StarNext]_vars

(***************************************************************************)
(* Planet::iterateSurfaceConditions and the surface covers.  hydrosphere,  *)
(* cloudCoverage and iceCoverage are fractions of the surface, here in     *)
(* 1/CoverUnit; a division by 3.0f rounds down to the grid.  The           *)
(* temperatures, the albedo and the pressure enter through the tests made  *)
(* on them, which an update may pass or fail.                              *)
(***************************************************************************)
\* A cover of 1.0f.
CoverUnit == 9

\* min(1.0f, Fogg's eq. 22) for the planet: the volatile gas inventory and
\* the radius do not change during the iteration.
HydrosphereValues == {0, 4, CoverUnit}

\* Line 1190-1192: the running value after an update.
Blend(old, new) == (2 * old + new) \div 3

\* Planet::updateSurfaceConditions, lines 1104-1197, on the covers of the
\* planet p.  cloud and ice are what lines 1130-1160 compute from the
\* temperature; runaway, boilOff and frozen are the tests of lines 1168,
\* 1172 and 1183.  `old` and `new` are what lines 1190-1192 read.
updateSurfaceConditions(p, cloud, ice, runaway, boilOff, frozen) ==
    LET newCloudCover == IF p.heavy THEN 0 ELSE cloud
        newIceCover == Max(0, Min(CoverUnit, Min((3 * p.newHydrosphere) \div 2, ice)))
        wet == IF p.newHydrosphere + newIceCover > CoverUnit
               THEN CoverUnit - newIceCover ELSE p.newHydrosphere
        cloud1 == IF runaway THEN CoverUnit ELSE p.cloudCoverage
        cloud2 == IF boilOff THEN (IF p.heavy THEN 0 ELSE CoverUnit) ELSE cloud1
        hydrosphere0 == IF boilOff \/ frozen THEN 0 ELSE p.hydrosphere
        newHydrosphere == IF boilOff \/ frozen THEN 0 ELSE wet
        hydrosphere1 == Blend(hydrosphere0, newHydrosphere)
        cloudCoverage == Blend(cloud2, newCloudCover)
        iceCoverage == Blend(p.iceCoverage, newIceCover)
        hydrosphere == IF hydrosphere1 + iceCoverage > CoverUnit
                       THEN CoverUnit - iceCoverage ELSE hydrosphere1
    IN  [p EXCEPT !.hydrosphere = hydrosphere,
                  !.cloudCoverage = cloudCoverage,
                  !.iceCoverage = iceCoverage,
                  !.blended = << hydrosphere1, cloudCoverage, iceCoverage >>,
                  !.old = << hydrosphere0, cloud2, p.iceCoverage >>,
                  !.new = << newHydrosphere, newCloudCover, newIceCover >>,
                  !.updates = @ + 1]

\* The updates an update call can make: what the temperature of the moment
\* lets lines 1130-1186 compute.  There is no cloud without water.
Updates(p) ==
    {updateSurfaceConditions(p, cloud, ice, runaway, boilOff, frozen) :
        cloud \in (IF p.newHydrosphere = 0 THEN {0} ELSE {0, CoverUnit}),
        ice \in {0, CoverUnit},
        runaway \in {FALSE, p.runaway},
        boilOff \in BOOLEAN, frozen \in BOOLEAN}

\* Line 974: initializeSurfaceConditions on a planet that reached the
\* surface iteration of Planet::evaluate.
InitializeSurfaceConditions ==
    /\ covers.at = "none"
    /\ \E h \in HydrosphereValues, heavy \in BOOLEAN, runaway \in BOOLEAN :
        covers' = [at |-> "initialized", newHydrosphere |-> h, heavy |-> heavy,
                   runaway |-> runaway,
                   hydrosphere |-> 0, cloudCoverage |-> 0, iceCoverage |-> 0,
                   blended |-> << 0, 0, 0 >>, old |-> << 0, 0, 0 >>,
                   new |-> << 0, 0, 0 >>, updates |-> 0, i |-> 0, converged |-> FALSE]
    /\ UNCHANGED << accretionVars, evaluation, bode, star, kothari, merger >>

\* Line 975: the update before the loop.
FirstUpdate ==
    /\ covers.at = "initialized"
    /\ \E u \in Updates(covers) : covers' = [u EXCEPT !.at = "loop"]
    /\ UNCHANGED << accretionVars, evaluation, bode, star, kothari, merger >>

\* Lines 980-992: one pass of the loop; the test of line 986 on the
\* temperatures ends it or not.
LoopUpdate ==
    /\ covers.at = "loop"
    /\ covers.i < MaxConvergenceIterations
    /\ \E u \in Updates(covers), closeEnough \in BOOLEAN :
        covers' = IF closeEnough
                  THEN [u EXCEPT !.at = "done", !.converged = TRUE]
                  ELSE [u EXCEPT !.i = @ + 1]
    /\ UNCHANGED << accretionVars, evaluation, bode, star, kothari, merger >>

\* Line 980: the loop ends without the break.
LoopExhausted ==
    /\ covers.at = "loop"
    /\ covers.i >= MaxConvergenceIterations
    /\ covers' = [covers EXCEPT !.at = "done"]
    /\ UNCHANGED << accretionVars, evaluation, bode, star, kothari, merger >>

\* The next planet is evaluated.
NextPlanet ==
    /\ covers.at = "done"
    /\ covers' = NoCovers
    /\ UNCHANGED << accretionVars, evaluation, bode, star, kothari, merger >>

SurfaceNext ==
    \/ InitializeSurfaceConditions
    \/ FirstUpdate
    \/ LoopUpdate
    \/ LoopExhausted
    \/ NextPlanet

SurfaceSpec == Init /\ [][SurfaceNext]_vars

(***************************************************************************)
(* KothariRadius and the material zones of the star.  Distances are on a   *)
(* grid of AU, the material zone (a float in [1, 3]) is in 1/ZoneUnit, the *)
(* table entries are in 1/100; a product with the interpolant rounds down  *)
(* to the grid.                                                            *)
(***************************************************************************)
\* A material zone of 1.0f.
ZoneUnit == 4

\* sqrt(luminosity) of the stars evaluated.
SqrtLuminosities == {2, 4}

\* The last semimajor axis, beyond the outer edge of zone 2 of every star.
MaxSma == 70

InnerZone1Scalar == 0
OuterZone1Scalar == 5
InnerZone2Scalar == 4
OuterZone2Scalar == 16
InnerZone3Scalar == 14
OuterZone3Scalar == 200

\* [rocky Zone 1, rocky Zone 2, rocky Zone 3, gas Zone 1, gas Zone 2, gas Zone 3],
\* indexed from 0 as in the source.
AtomicWeight == [k \in 0..5 |-> << 1500, 1000, 1000, 950, 247, 700 >>[k + 1]]
AtomicNumber == [k \in 0..5 |-> << 800, 500, 500, 450, 200, 400 >>[k + 1]]

\* InverseLerp(value, lower, upper), in 1/ZoneUnit.
InverseLerp(value, lower, upper) ==
    IF value <= lower THEN 0
    ELSE IF value >= upper THEN ZoneUnit
    ELSE (ZoneUnit * (value - lower)) \div (upper - lower)

\* Lerp(interpolant, lower, upper), the interpolant in 1/ZoneUnit.
Lerp(interpolant, lower, upper) ==
    IF interpolant <= 0 THEN lower
    ELSE IF interpolant >= ZoneUnit THEN upper
    ELSE lower + ((upper - lower) * interpolant) \div ZoneUnit

\* Star::getMaterialZone(sma) of a star with these zones.
getMaterialZone(zones, sma) ==
    IF sma < zones.zone2[1] THEN ZoneUnit
    ELSE IF sma < zones.zone1[2]
    THEN ZoneUnit + InverseLerp(sma, zones.zone2[1], zones.zone1[2])
    ELSE IF sma < zones.zone3[1] THEN 2 * ZoneUnit
    ELSE 2 * ZoneUnit + InverseLerp(sma, zones.zone3[1], zones.zone2[2])

\* floorf(orbitZone)
Floorf(orbitZone) == (orbitZone \div ZoneUnit) * ZoneUnit

\* Line 64: the zone index of KothariRadius.
ZoneIndex(orbitZone) == IF orbitZone < 2 * ZoneUnit THEN 0 ELSE 1

\* Star::evaluate, lines 165-167: the material zones of the star.
StarZones ==
    /\ kothari.at = "none"
    /\ \E sqrtLum \in SqrtLuminosities :
        kothari' = [at |-> "star",
                    zone1 |-> << sqrtLum * InnerZone1Scalar, sqrtLum * OuterZone1Scalar >>,
                    zone2 |-> << sqrtLum * InnerZone2Scalar, sqrtLum * OuterZone2Scalar >>,
                    zone3 |-> << sqrtLum * InnerZone3Scalar, sqrtLum * OuterZone3Scalar >>]
    /\ UNCHANGED << accretionVars, evaluation, bode, star, covers, merger >>

\* Planet::evaluate, line 470: the material zone of a planet of the star.
MaterialZone ==
    /\ kothari.at \in {"star", "done"}
    /\ \E sma \in 0..MaxSma :
        kothari' = [at |-> "zone", zone1 |-> kothari.zone1, zone2 |-> kothari.zone2,
                    zone3 |-> kothari.zone3, sma |-> sma,
                    materialZone |-> getMaterialZone(kothari, sma)]
    /\ UNCHANGED << accretionVars, evaluation, bode, star, covers, merger >>

\* KothariRadius, lines 59-79: the parameters Z and A of the equation.  The
\* radius (lines 81-91) is a function of the mass and these two.
KothariRadius ==
    /\ kothari.at = "zone"
    /\ \E forGasGiant \in BOOLEAN :
        LET orbitZone == kothari.materialZone
            zoneIndex == ZoneIndex(orbitZone) + (IF forGasGiant THEN 3 ELSE 0)
            interpolant == orbitZone - Floorf(orbitZone)
            atomicWeight == Lerp(interpolant, AtomicWeight[zoneIndex],
                                 AtomicWeight[zoneIndex + 1])
            atomicNumber == Lerp(interpolant, AtomicNumber[zoneIndex],
                                 AtomicNumber[zoneIndex + 1])
        IN  kothari' = [at |-> "done", zone1 |-> kothari.zone1, zone2 |-> kothari.zone2,
                        zone3 |-> kothari.zone3, sma |-> kothari.sma,
                        materialZone |-> orbitZone, forGasGiant |-> forGasGiant,
                        zoneIndex |-> zoneIndex, interpolant |-> interpolant,
                        read |-> {zoneIndex, zoneIndex + 1},
                        atomicWeight |-> atomicWeight, atomicNumber |-> atomicNumber]
    /\ UNCHANGED << accretionVars, evaluation, bode, star, covers, merger >>

KothariNext ==
    \/ StarZones
    \/ MaterialZone
    \/ KothariRadius

KothariSpec == Init /\ [][KothariNext]_vars

(***************************************************************************)
(* One planet and one protoplanet that reaches it, on a grid fine enough   *)
(* for the gas share of a planet: distances in 1/AuScale AU,               *)
(* eccentricities in 1/Milli, masses in 1/MassScale solar masses, the      *)
(* effect limit scalar and sqrt(luminosity) in 1/Myriad.  The star is the  *)
(* M2V of the stellar table.                                               *)
(***************************************************************************)
AuScale == 100
Milli == 1000
Myriad == 10000
MassScale == 100000000

\* B of CriticalLimit, 1.2e-5 solar masses.
MergerB == 1200

\* sqrt(luminosity) of the M2V star: logL = -1.54.
SqrtLuminosityM2V == 1698

\* sqrt, rounded down: the largest r of lo..hi with r * r <= n.
RECURSIVE RootBetween(_, _, _)
RootBetween(n, lo, hi) ==
    IF lo = hi THEN lo
    ELSE LET mid == (lo + hi + 1) \div 2
         IN  IF mid * mid <= n THEN RootBetween(n, mid, hi)
             ELSE RootBetween(n, lo, mid - 1)

\* 46340 is the largest root whose square fits the integers of the model.
Root(n) == RootBetween(n, 0, 46340)

\* CriticalLimit(sma, eccentricity, stellarLuminosity):
\* B * pow(perihelion * sqrt(luminosity), -0.75).
CriticalLimitAt(sma, e, sqrtLum) ==
    LET perihelion == (sma * (Milli - e)) \div Milli       \* 1/AuScale AU
        term == perihelion * sqrtLum                        \* 1/(AuScale * Myriad)
        term15 == (term \div Milli) * Root(term)            \* pow(term, 1.5), same unit
    IN  (MergerB * Milli) \div Root(term15)

\* EffectLimitScalar(mass): pow(mass / (1 + mass), 1/4), in 1/Myriad.
EffectLimitScalarAt(mass) ==
    LET ratio == mass - (mass * mass) \div MassScale        \* mass / (1 + mass)
    IN  Root(Root(ratio * Myriad) * AuScale)

\* sma * (1 +- e) * (1 +- scalar), the factors given in 1/Milli and 1/Myriad.
Reach(sma, eFactor, scalarFactor) ==
    (((sma * eFactor) \div Milli) * scalarFactor) \div Myriad

\* GetEffectLimits: << r_inner, r_outer >>.
GetEffectLimitsAt(sma, e, mass) ==
    LET scalar == EffectLimitScalarAt(mass)
        cloud == (CloudEccentricity * Myriad) \div EccScale
    IN  << (((sma * (Milli - e)) \div Milli) * (Myriad - scalar)) \div (Myriad + cloud),
           CeilDiv(((sma * (Milli + e)) \div Milli) * (Myriad + scalar), Myriad - cloud) >>

\* collectDust over bands that hold `dust` in all within the effect limits,
\* gas present: << newMass, additionalGasMass >>.
collectDustAt(lastMass, dust, criticalMass) ==
    IF lastMass < criticalMass THEN << dust, 0 >>
    ELSE LET root == Root(((criticalMass * Myriad) \div lastMass) * AuScale)  \* 1/Milli
             newMass == (K * dust * Milli) \div (Milli + root * (K - 1))
         IN  << newMass, newMass - dust >>

\* The do-while of accreteDust from the seed mass, which is below the unit of
\* mass: << addedMass, addedGasMass >> when the loop leaves.
RECURSIVE GrowthLoopAt(_, _, _)
GrowthLoopAt(addedMass, dust, criticalMass) ==
    LET collected == collectDustAt(addedMass, dust, criticalMass)
    IN  IF collected[1] > 0
           /\ (collected[1] - addedMass) * ConvergenceDivisor >= addedMass
        THEN GrowthLoopAt(collected[1], dust, criticalMass)
        ELSE collected

\* The protoplanet accreteDust leaves when `dust` lies within its reach.
Accreted(sma, e, dust) ==
    LET collected == GrowthLoopAt(0, dust, CriticalLimitAt(sma, e, SqrtLuminosityM2V))
    IN  [sma |-> sma, e |-> e, mass |-> collected[1],
         dustMass |-> collected[1] - collected[2], gasMass |-> collected[2]]

\* The collision test of coalescePlanetisimals, lines 228-250.
Collide(planet, proto) ==
    LET diff == planet.sma - proto.sma
        ppScalar == EffectLimitScalarAt(proto.mass)
        planetScalar == EffectLimitScalarAt(planet.mass)
        dist1 == IF diff > 0
                 THEN Reach(proto.sma, Milli + proto.e, Myriad + ppScalar) - proto.sma
                 ELSE proto.sma - Reach(proto.sma, Milli - proto.e, Myriad - ppScalar)
        dist2 == IF diff > 0
                 THEN planet.sma - Reach(planet.sma, Milli - planet.e, Myriad - planetScalar)
                 ELSE Reach(planet.sma, Milli + planet.e, Myriad + planetScalar) - planet.sma
    IN  Abs(diff) <= Abs(dist1) \/ Abs(diff) <= Abs(dist2)

\* newSMA, newE and the summed masses of lines 253-316.
Merged(planet, proto) ==
    LET mass == planet.mass + proto.mass
        newSMA == (planet.sma * proto.sma * 10)
                      \div (((planet.mass * proto.sma + proto.mass * planet.sma) * 10)
                                \div mass)
        \* sqrt(sma) in 1/Milli, sqrt(1 - e^2) and its root in 1/Myriad
        rootSma(a) == Root(a * Myriad)
        rootOne(e) == Root((Milli * Milli - e * e) * AuScale)
        term(m, a, r) == (((m * rootSma(a)) \div AuScale) * r) \div AuScale
        sum == term(planet.mass, planet.sma, rootOne(planet.e))
                   + term(proto.mass, proto.sma, Root(rootOne(proto.e) * Myriad))
        e2 == (sum * AuScale) \div ((mass * rootSma(newSMA)) \div AuScale)    \* 1/Myriad
        rest == IF Myriad * Myriad > e2 * e2 THEN Myriad * Myriad - e2 * e2 ELSE 0
    IN  [sma |-> newSMA, e |-> Root(rest) \div (Myriad \div Milli), mass |-> mass,
         dustMass |-> planet.dustMass + proto.dustMass,
         gasMass |-> planet.gasMass + proto.gasMass]

\* << sma, e, dust within reach >> of the protoplanet that becomes the planet
\* and of the protoplanet that follows it.  The first planet orbit with 1459
\* of dust and the last protoplanet orbit but one with 141 are the second and
\* the fifth seed of a run that fails.
PlanetInputs ==
    {<< sma, 14, dust >> : sma \in {502, 520}, dust \in {1300, 1459, 1550}}

ProtoplanetInputs ==
    {<< orbit[1], orbit[2], dust >> :
        orbit \in {<< 650, 300 >>, << 650, 888 >>, << 788, 300 >>, << 788, 888 >>,
                   << 900, 100 >>},
        dust \in {141, 400}}

\* accreteDust of a protoplanet no planet is near: it becomes the one planet
\* of the list.
FormPlanet ==
    /\ merger.at = "none"
    /\ \E input \in PlanetInputs :
        merger' = [at |-> "planet",
                   planetList |-> << Accreted(input[1], input[2], input[3]) >>]
    /\ UNCHANGED << accretionVars, evaluation, bode, star, covers, kothari >>

\* accreteDust of the next protoplanet up to its call of
\* coalescePlanetisimals: updateDustLanes has cleared the dust between its
\* effect limits.
AccreteProtoplanet ==
    /\ merger.at = "planet"
    /\ \E input \in ProtoplanetInputs :
        LET proto == Accreted(input[1], input[2], input[3])
        IN  merger' = [at |-> "coalescePlanetisimals", planetList |-> merger.planetList,
                       protoplanet |-> proto,
                       swept |-> GetEffectLimitsAt(proto.sma, proto.e, proto.mass)]
    /\ UNCHANGED << accretionVars, evaluation, bode, star, covers, kothari >>

\* coalescePlanetisimals of that protoplanet: a collision removes the planet
\* and hands the merged protoplanet to accreteDust, otherwise the
\* protoplanet joins the list in order of semimajor axis.
CoalesceProtoplanet ==
    /\ merger.at = "coalescePlanetisimals"
    /\ LET planet == merger.planetList[1]
           proto == merger.protoplanet
       IN  IF Collide(planet, proto)
           THEN merger' = [at |-> "accreteDust", planetList |-> << >>,
                           protoplanet |-> Merged(planet, proto),
                           swept |-> merger.swept]
           ELSE merger' = [at |-> "generated", merged |-> FALSE,
                           planetList |-> IF proto.sma < planet.sma
                                          THEN << proto, planet >>
                                          ELSE << planet, proto >>,
                           results |-> << >>]
    /\ UNCHANGED << accretionVars, evaluation, bode, star, covers, kothari >>

\* accreteDust of the merged protoplanet whose effect limits lie inside the
\* lane just cleared: collectDust adds nothing, the list is empty and the
\* protoplanet becomes a planet as it is.
AccreteMerged ==
    /\ merger.at = "accreteDust"
    /\ LET proto == merger.protoplanet
           limits == GetEffectLimitsAt(proto.sma, proto.e, proto.mass)
       IN  /\ merger.swept[1] <= limits[1]
           /\ limits[2] <= merger.swept[2]
           /\ merger' = [at |-> "generated", merged |-> TRUE,
                         planetList |-> << proto >>, results |-> << >>]
    /\ UNCHANGED << accretionVars, evaluation, bode, star, covers, kothari >>

\* Planet.cpp 520, the asserted condition of the rocky branch.
RockyAssertion(dustMass, gasMass, criticalLimit) ==
    ~(gasMass * GaseousPlanetDivisor > dustMass + gasMass)
        \/ dustMass > criticalLimit

\* Planet.cpp 492: the test that sends a planet to the gas giant branch;
\* every other planet goes to the rocky branch.
LooksGaseous(dustMass, gasMass, criticalLimit) ==
    dustMass > criticalLimit /\ gasMass * GaseousPlanetDivisor > dustMass + gasMass

\* Planet::evaluate of the given planet, lines 492-520.
EvaluatePlanet(planet) ==
    LET criticalLimit == CriticalLimitAt(planet.sma, planet.e, SqrtLuminosityM2V)
    IN  [criticalLimit |-> criticalLimit,
         gasGiantBranch |-> LooksGaseous(planet.dustMass, planet.gasMass, criticalLimit),
         asserted |-> RockyAssertion(planet.dustMass, planet.gasMass, criticalLimit)]

\* Planet::evaluate of the next planet of the system, up to the assertion.
EvaluateNext ==
    /\ merger.at = "generated"
    /\ Len(merger.results) < Len(merger.planetList)
    /\ merger' = [merger EXCEPT
                     !.results = Append(@, EvaluatePlanet(merger.planetList[Len(@) + 1]))]
    /\ UNCHANGED << accretionVars, evaluation, bode, star, covers, kothari >>

MergerNext ==
    \/ FormPlanet
    \/ AccreteProtoplanet
    \/ CoalesceProtoplanet
    \/ AccreteMerged
    \/ EvaluateNext

MergerSpec == Init /\ [][MergerNext]_vars

(***************************************************************************)
(* The dust disk seen point by point.  Band edges and effect limits lie on *)
(* the grid, so the open cell (c, c + 1) lies inside exactly one band of   *)
(* positive width.                                                         *)
(***************************************************************************)
Cells == DustInner..(DustOuter - 1)

Covers(band, c) == band.innerEdge <= c /\ c + 1 <= band.outerEdge

DustAt(bands, c) == \E i \in 1..Len(bands) : Covers(bands[i], c) /\ bands[i].dustPresent
GasAt(bands, c) == \E i \in 1..Len(bands) : Covers(bands[i], c) /\ bands[i].gasPresent

SameFlags(a, b) == a.dustPresent = b.dustPresent /\ a.gasPresent = b.gasPresent

\* C1: after every updateDustLanes the band list is sorted ascending by
\* innerEdge, contiguous (each outerEdge is the next band's innerEdge), and no
\* two adjacent bands carry the same (dustPresent, gasPresent) flags.
C1_BandsSortedContiguousDistinct ==
    \A i \in 1..(Len(availableDust) - 1) :
        /\ availableDust[i].innerEdge <= availableDust[i + 1].innerEdge
        /\ availableDust[i].outerEdge = availableDust[i + 1].innerEdge
        /\ ~SameFlags(availableDust[i], availableDust[i + 1])

\* C1, its case: updateDustLanes has split a band in three and the sweep
\* before it had left bands to coalesce with.
C1_Witness ==
    /\ sweep.called
    /\ Len(sweep.before) >= 3
    /\ Len(availableDust) >= 3
    /\ Len(SplitBands(sweep.before, sweep.protoplanet,
                      sweep.protoplanet.mass < sweep.protoplanet.criticalMass, 1))
           > Len(availableDust)

\* C2: after updateDustLanes with effect limits [r_inner, r_outer], every
\* point outside the limits has the dust and gas flags it had before, every
\* point inside has no dust, and has its gas flag unchanged when the
\* protoplanet is below its critical mass and cleared otherwise.
C2_SweepClearsExactlyTheLimits ==
    sweep.called =>
        LET p == sweep.protoplanet
            gasRemains == p.mass < p.criticalMass
        IN  \A c \in Cells :
              /\ (c + 1 <= p.r_inner \/ c >= p.r_outer) =>
                    /\ DustAt(availableDust, c) = DustAt(sweep.before, c)
                    /\ GasAt(availableDust, c) = GasAt(sweep.before, c)
              /\ (c >= p.r_inner /\ c + 1 <= p.r_outer) =>
                    /\ ~DustAt(availableDust, c)
                    /\ GasAt(availableDust, c) = (GasAt(sweep.before, c) /\ gasRemains)

\* C3: updateDustLanes leaves the coverage of the disk unchanged: the first
\* band still starts and the last band still ends where the initial band did.
C3_CoverageUnchanged ==
    availableDust # << >> =>
        /\ availableDust[1].innerEdge = InitialDust[1].innerEdge
        /\ availableDust[Len(availableDust)].outerEdge = InitialDust[1].outerEdge

\* C3, its case: a sweep whose outer limit lies beyond the disk has cut the
\* disk's last band.
C3_Witness ==
    /\ sweep.called
    /\ sweep.protoplanet.r_outer > DustOuter
    /\ sweep.protoplanet.r_inner > DustInner
    /\ Len(availableDust) >= 2

\* C4: in every sweep of accreteDust and accreteDust2 the interval whose dust
\* updateDustLanes clears is the interval the last collectDust call collected
\* from: dust is cleared exactly where it was collected.
C4_ClearedIsCollected ==
    sweep.called =>
        \A c \in Cells :
            DustAt(sweep.before, c) =>
                (~DustAt(availableDust, c)
                    <=> (c >= sweep.collectInner /\ c + 1 <= sweep.collectOuter))

SortedBySma(planets) ==
    \A i \in 1..(Len(planets) - 1) : planets[i].sma <= planets[i + 1].sma

\* C5: the planet list is sorted ascending by semi-major axis after every
\* insertion and merge, and the SolarSystem receives the planets in that
\* order.
C5_PlanetsSorted ==
    /\ SortedBySma(planetList)
    /\ SortedBySma(system)
    /\ (pc = "idle" /\ planetList # << >> /\ system # << >>) => system = planetList

\* C5, its case: a generate call has handed over three planets or more.
C5_Witness ==
    /\ pc = "idle"
    /\ Len(system) >= 3
    /\ system = planetList

C7_OnlyPlanetsOfThisCall ==
    /\ \A i \in 1..Len(system) : system[i].run = runs
    /\ ~collision.earlier

\* Whether a protoplanet of seed mass at (sma, e) would collect any mass
\* from the bands as they are.
Collects(sma, e) ==
    LET p0 == [Protoplanet(sma, e, ProtoplanetSeedMass) EXCEPT
                  !.criticalMass = CriticalLimit(sma, e)]
    IN  GrowthLoop(p0, availableDust, DustDensityA, 0).collected.mass > 0

Stripped(planets) ==
    [i \in 1..Len(planets) |->
        [sma |-> planets[i].sma, e |-> planets[i].e, dustMass |-> planets[i].dustMass,
         gasMass |-> planets[i].gasMass, orbit |-> planets[i].orbit]]

\* C9: two runs started from the same seed with the same configuration
\* produce the same planet list, on two Generator objects and on one object
\* seeded again.
C9_SameSeedSamePlanets ==
    \A i, j \in 1..Len(log) :
        (/\ log[i].start = log[j].start
         /\ log[i].config = log[j].config
         /\ log[i].entry = log[j].entry)
            => Stripped(log[i].planet) = Stripped(log[j].planet)

ZeroDensity == entry = "create" /\ config.dustDensity = 0

\* C10 as stated: on a disk of zero dust density no planet is inserted, and
\* dustRemains is false as soon as the first accretion attempt has been made.
C10_ZeroDensityEndsAtOnce ==
    ZeroDensity =>
        /\ planetList = << >>
        /\ sweep.called => ~dustRemains

\* C10, amended: on a disk of zero dust density (System::create with
\* config.dustDensity = 0) no planet is ever inserted; every accretion
\* attempt leaves the protoplanet at its seed mass and clears the dust of its
\* effect interval only, and dustRemains stays true exactly as long as a
\* dust-bearing band overlaps the protoplanet zone, which can outlast the
\* first attempt.
C10_ZeroDensityNoPlanet ==
    ZeroDensity =>
        /\ planetList = << >>
        /\ system = << >>
        /\ sweep.called =>
              /\ sweep.protoplanet.mass = ProtoplanetSeedMass
              /\ sweep.protoplanet.gasMass = 0
              /\ \A c \in Cells :
                    DustAt(availableDust, c) =
                        (/\ DustAt(sweep.before, c)
                         /\ ~(c >= sweep.protoplanet.r_inner
                                /\ c + 1 <= sweep.protoplanet.r_outer))
        /\ dustRemains = \E i \in 1..Len(availableDust) :
                             InZone(availableDust[i], protoplanetZone)

\* C10, its case: generation on a zero-density disk has ended, without a
\* planet, after more than one accretion attempt.
C10_Witness ==
    /\ ZeroDensity
    /\ pc = "idle"
    /\ ~dustRemains
    /\ protoPlanetCount >= 2
    /\ system = << >>


(***************************************************************************)
(* The protoplanets generate submits to accretion.                         *)
(***************************************************************************)
IsSeedEntry(x) == x.source = "seed"

\* The seed indices submitted so far, in the order of submission.
SubmittedSeeds ==
    LET seeds == SelectSeq(audit.submitted, IsSeedEntry)
    IN  [i \in 1..Len(seeds) |-> seeds[i].index]

SeedInZone(i) ==
    /\ protoplanetSeeds[i].semiMajorAxis >= protoplanetZone[1]
    /\ protoplanetSeeds[i].semiMajorAxis <= protoplanetZone[2]

\* The seeds the loop has passed so far that lie in the protoplanet zone.
PassedInZone == {i \in 1..(seedIndex - 1) : SeedInZone(i)}

SeedsBeforeRandom ==
    \A i, j \in 1..Len(audit.submitted) :
        (audit.submitted[i].source = "random" /\ i < j)
            => audit.submitted[j].source = "random"

Increasing(seq) == \A i \in 1..(Len(seq) - 1) : seq[i] < seq[i + 1]

\* C11 as stated: the protoplanets generate submits are the seeds inside the
\* protoplanet zone, each of them, in the order listed, and random ones only
\* afterwards; no seed outside the zone is submitted.
C11_EveryZoneSeedThenRandom ==
    entry = "generate" =>
        /\ Increasing(SubmittedSeeds)
        /\ {SubmittedSeeds[i] : i \in 1..Len(SubmittedSeeds)} = PassedInZone
        /\ SeedsBeforeRandom

\* C11, amended: the seeds submitted are seeds inside the protoplanet zone,
\* in the order listed, and random protoplanets follow only afterwards; no
\* seed outside the zone is submitted; a seed inside the zone is passed over
\* exactly when no dust remains in the zone by the time the loop reaches it.
C11_ZoneSeedsWhileDustRemains ==
    entry = "generate" =>
        /\ Increasing(SubmittedSeeds)
        /\ {SubmittedSeeds[i] : i \in 1..Len(SubmittedSeeds)} \subseteq PassedInZone
        /\ SeedsBeforeRandom
        /\ \A i \in PassedInZone :
              (\A k \in 1..Len(SubmittedSeeds) : SubmittedSeeds[k] # i) => ~dustRemains

\* C11, its case: a seed outside the zone was passed over, the seed after it
\* was accreted, and a random protoplanet followed.
C11_Witness ==
    /\ entry = "generate"
    /\ pc = "accreteDust"
    /\ ret = "random"
    /\ Len(protoplanetSeeds) = 2
    /\ ~SeedInZone(1)
    /\ SubmittedSeeds = << 2 >>
    /\ audit.submitted[Len(audit.submitted)].source = "random"


(***************************************************************************)
(* The round-robin phase of generate2.                                     *)
(***************************************************************************)
\* The round-robin phase of the current generate2 call is over.
RoundRobinOver ==
    /\ entry = "generate2"
    /\ \/ pc \in {"coalesce", "random", "idle"}
       \/ pc \in {"accreteDust", "coalescePlanetisimals"}

AllInactive == \A i \in 1..Len(protoplanets) : ~protoplanets[i].active

RandomSubmitted ==
    \E k \in 1..Len(audit.submitted) : audit.submitted[k].source = "random"

\* One step of generate2 in the same call.
RoundRobinStep ==
    /\ entry = "generate2"
    /\ entry' = "generate2"
    /\ runs' = runs
    /\ Len(protoplanets') = Len(protoplanets)

\* C17: the round-robin phase of generate2 ends after the first round in
\* which no active protoplanet added mass; at that point every initial
\* protoplanet is marked inactive; an inactive protoplanet is never swept
\* again; random protoplanets are accreted only after that phase and only
\* while dust remains.
C17_RoundRobinUntilNoneCollects ==
    /\ [](RoundRobinOver => AllInactive)
    /\ []((entry = "generate2" /\ RandomSubmitted) => RoundRobinOver)
    /\ [][RoundRobinStep =>
            /\ \A i \in 1..Len(protoplanets) :
                  ~protoplanets[i].active => protoplanets'[i] = protoplanets[i]
            /\ \A i \in 1..Len(protoplanets) :
                  protoplanets'[i].mass > protoplanets[i].mass
                      => (pc = "accreteDust2" /\ anyAccrued')
            /\ (pc = "accreteDust2" /\ idx > Len(protoplanets))
                  => (pc' = "coalesce" <=> ~anyAccrued)
            /\ (pc = "accreteDust2" /\ pc' # "accreteDust2")
                  => (idx > Len(protoplanets) /\ ~anyAccrued)
            /\ audit'.submitted # audit.submitted
                  => (pc = "random" /\ dustRemains)]_vars

\* C17, its case: two initial protoplanets accreted in rounds, both stopped,
\* one of them grew, dust remained, and a random protoplanet followed.
C17_Witness ==
    /\ entry = "generate2"
    /\ pc = "accreteDust"
    /\ ret = "random"
    /\ Len(protoplanets) >= 2
    /\ AllInactive
    /\ \E i \in 1..Len(protoplanets) : protoplanets[i].mass > ProtoplanetSeedMass


\* The generate call that returned last, as logged, while its Generator
\* object is still the one in use.
LastRun == log[Len(log)]

Returned ==
    /\ pc = "idle"
    /\ log # << >>
    /\ LastRun.run = runs
    /\ LastRun.generator = generator

\* C18: after generate or generate2, getProtoplanetCount() is the number of
\* seeded or randomly placed protoplanets that accreted beyond the seed mass
\* during the run, each counted once.
C18_CountIsViableProtoplanets ==
    Returned => LastRun.protoPlanetCount = audit.viable


\* C20: the assertion of updateDustLanes never fails: a band that matches
\* none of the four cases lies strictly outside [r_inner, r_outer].
C20_HoleAssertionHolds ==
    sweep.called =>
        \A i \in 1..Len(sweep.before) :
            (IF sweep.by = "GenerationState::accreteDust"
             THEN GS_ReachesAssertion(sweep.before[i], sweep.protoplanet)
             ELSE ReachesAssertion(sweep.before[i], sweep.protoplanet))
                => HoleAssertion(sweep.before[i], sweep.protoplanet)


(***************************************************************************)
(* Planet evaluation.                                                      *)
(***************************************************************************)
InSurfaceLoop == evaluation.at = "surface"

\* The change of the mean surface temperature in the last pass is below a
\* quarter of a Kelvin.
BelowQuarterKelvin(ev) ==
    4 * Abs(ev.previousTemperature - ev.meanSurfaceTemperature) < TempUnit

\* A step that is one more pass of the loop.
OneMorePass ==
    /\ InSurfaceLoop
    /\ evaluation'.at = "surface"
    /\ evaluation'.iterations = evaluation.iterations + 1

\* C12: the surface-condition loop makes at most 25 passes, and it stops at
\* the first pass whose change in mean surface temperature is below 0.25 K:
\* the loop is marked converged exactly when its last pass changed the
\* temperature by less than that, and no pass follows such a pass.
C12_AtMost25UntilFirstConverged ==
    /\ [](InSurfaceLoop =>
            /\ evaluation.iterations \in 0..25
            /\ evaluation.iterations > 0 =>
                   (evaluation.converged <=> BelowQuarterKelvin(evaluation)))
    /\ [][OneMorePass =>
            /\ evaluation.iterations < 25
            /\ evaluation.iterations > 0 => ~BelowQuarterKelvin(evaluation)]_vars

\* The loop converged in its 25th pass, after a pass that changed the
\* temperature by exactly 0.25 K.
C12_Witness ==
    /\ InSurfaceLoop
    /\ evaluation.iterations = 25
    /\ evaluation.converged
    /\ evaluation.previousTemperature = 2298


\* A rocky planet whose evaluation has returned.
SurfaceEvaluated == evaluation.at = "done" /\ evaluation.looped

\* C13: when the loop ends without meeting the 0.25 K criterion the
\* evaluation goes on and the non-convergence diagnostic is reported, and the
\* diagnostic is reported only for planets whose loop did not converge.
C13_ReportedIffNotConverged ==
    SurfaceEvaluated => (evaluation.reported <=> ~evaluation.converged)


Evaluated == evaluation.at = "done"

\* The planet as it was handed to evaluate.
GivenTotalMass == evaluation.given.dustMass + evaluation.given.gasMass

\* More than 5% of the mass is gas, and the mass is above 2.04 Earth masses.
GasRichAndHeavy ==
    /\ 20 * evaluation.given.gasMass > GivenTotalMass
    /\ GivenTotalMass > (204 * MassUnit) \div 100

\* The final type is the gaseous type that the Jovian mass selects.
SubClassified ==
    /\ evaluation.type \in {"BrownDwarf", "GasGiant", "IceGiant"}
    /\ evaluation.type = "BrownDwarf" <=> evaluation.totalMass > BrownDwarfTransition
    /\ evaluation.type = "IceGiant" <=> evaluation.totalMass <= IceGiantTransition

\* C14 as stated: a planet whose total mass exceeds the critical limit, with
\* a gas fraction above 5% and a total mass above the rocky/gaseous
\* transition, is classified Gaseous and sub-classified BrownDwarf above 13
\* Jovian masses, GasGiant above 0.414 and IceGiant otherwise.
C14_TotalMassAboveCritical ==
    (Evaluated /\ GivenTotalMass > evaluation.given.criticalLimit /\ GasRichAndHeavy)
        => SubClassified

\* C14: a planet whose dust mass exceeds the critical limit, with a gas
\* fraction above 5%, a minimum retained molecular weight of at most 4.0 and
\* a total mass above the rocky/gaseous transition, is classified Gaseous and
\* sub-classified BrownDwarf above 13 Jovian masses, GasGiant above 0.414
\* and IceGiant otherwise.
C14_DustAboveCriticalAndRetains ==
    (Evaluated /\ evaluation.given.dustMass > evaluation.given.criticalLimit
        /\ GasRichAndHeavy /\ evaluation.given.minMolecularWeight <= 4)
        => SubClassified

\* A brown dwarf that retains helium but not hydrogen.
C14_Witness ==
    /\ Evaluated
    /\ evaluation.given.dustMass > evaluation.given.criticalLimit
    /\ GasRichAndHeavy
    /\ evaluation.given.minMolecularWeight = 4
    /\ evaluation.type = "BrownDwarf"


\* C15: for every evaluated planet getEarthSimilarityIndex() returns a value
\* in [0.0, 1.0] that was computed during that evaluation.
C15_SimilarityComputedInRange ==
    Evaluated =>
        /\ evaluation.earthSimilarityIndex \in 0..100
        /\ evaluation.similarityWritten


(***************************************************************************)
(* Bode seeds.                                                             *)
(***************************************************************************)
BodeShuffled == bode.at \in {"shuffle", "done"}

\* How often a seed occurs in a seed list.
Occurrences(seeds, seed) == Cardinality({k \in 1..Len(seeds) : seeds[k] = seed})

\* C16: after generateBodeSeeds the n = 0 seed is at index 0 of the seed
\* list, the shuffle swaps only elements at indices 1 and above, and the
\* result is a permutation of the generated seeds.
C16_FirstSeedStaysAndRestPermuted ==
    /\ [](BodeShuffled =>
            /\ bode.protoplanetSeeds[1].n = 0
            /\ Len(bode.protoplanetSeeds) = Len(bode.generated)
            /\ \A k \in 1..Len(bode.generated) :
                   Occurrences(bode.protoplanetSeeds, bode.generated[k])
                       = Occurrences(bode.generated, bode.generated[k]))
    /\ [][(BodeShuffled /\ bode'.at = "shuffle") =>
              bode'.protoplanetSeeds[1] = bode.protoplanetSeeds[1]]_vars

\* A list of seven seeds returned in another order than it was generated.
C16_Witness ==
    /\ bode.at = "done"
    /\ Len(bode.protoplanetSeeds) = 7
    /\ bode.protoplanetSeeds # bode.generated
    /\ bode.protoplanetSeeds[2].n = 4


(***************************************************************************)
(* The age of the star.                                                    *)
(***************************************************************************)
\* 1e10 * mass / luminosity, in units of 1e7 years
MainSequenceLife == (1000 * star.info.mass) \div star.info.luminosity

\* C19: after Star::evaluate, for every row of the stellar table and whether
\* the age was left unset or given by the caller, the age is at least
\* MinimumStellarAge (1e9) and at most the smaller of MaximumStellarAge
\* (6e9) and 1e10 * mass / luminosity.
C19_AgeWithinBounds ==
    star.at = "evaluated" =>
        /\ 100 <= star.ageYears
        /\ star.ageYears <= 600
        /\ star.ageYears <= MainSequenceLife


(***************************************************************************)
(* The band list and the planet list during accretion.                     *)
(***************************************************************************)
\* C21: after every updateDustLanes call every band of the list has
\* strictly positive width; no split creates a zero-width band, even when a
\* band edge equals r_inner or r_outer.
C21_BandsHavePositiveWidth ==
    \A k \in 1..Len(availableDust) :
        availableDust[k].innerEdge < availableDust[k].outerEdge


\* The points where generate and generate2 read dustRemains: the seed test
\* of line 551 and the while (dustRemains) of line 578.
TestsDustRemains ==
    \/ pc = "seeds" /\ seedIndex <= Len(protoplanetSeeds)
    \/ pc = "random"

\* A band that holds dust and reaches into the protoplanet zone, its edges
\* included.
DustOverlapsZone(k) ==
    /\ availableDust[k].dustPresent
    /\ availableDust[k].outerEdge >= protoplanetZone[1]
    /\ availableDust[k].innerEdge <= protoplanetZone[2]

\* C22: whenever the seeding loop tests dustRemains, dustRemains is true
\* if and only if some band with dustPresent overlaps the protoplanet zone
\* (outerEdge >= the zone's inner limit and innerEdge <= its outer limit).
C22_DustRemainsIffDustInZone ==
    TestsDustRemains =>
        (dustRemains <=> \E k \in 1..Len(availableDust) : DustOverlapsZone(k))

\* The test is made after a sweep that left dust only in bands that touch
\* the zone at one of its limits.
C22_Witness ==
    /\ TestsDustRemains
    /\ sweep.called
    /\ dustRemains
    /\ \A k \in 1..Len(availableDust) :
           DustOverlapsZone(k) =>
               \/ availableDust[k].outerEdge = protoplanetZone[1]
               \/ availableDust[k].innerEdge = protoplanetZone[2]

\* The test is made after a sweep that left no dust in the zone.
C22_WitnessNoDust ==
    /\ TestsDustRemains
    /\ sweep.called
    /\ ~dustRemains

\* No accreteDust call is active: the top-level call has returned to the
\* loop of generate or generate2 that made it.
AccreteDustReturned == pc \notin {"accreteDust", "coalescePlanetisimals"}

\* The planet as the protoplanet it was inserted from.
AsProtoplanet(planet) == Protoplanet(planet.sma, planet.e, getMass(planet))

\* C23: whenever a top-level accreteDust call has returned, no two planets
\* of the planet list satisfy the collision test of coalescePlanetisimals
\* against each other.
C23_NoPairCollides ==
    AccreteDustReturned =>
        \A i, j \in 1..Len(planetList) :
            i # j => ~Collides(planetList[i], AsProtoplanet(planetList[j]))

\* A call that merged has returned and left at least two planets.
C23_Witness ==
    /\ AccreteDustReturned
    /\ collision.done
    /\ Len(planetList) >= 2

\* coalescePlanetisimals finds a collision and calls accreteDust with the
\* merged protoplanet.
MergeStep == pc = "coalescePlanetisimals" /\ pc' = "accreteDust"

\* coalescePlanetisimals finds no collision and adds the planet.
InsertStep == pc = "coalescePlanetisimals" /\ pc' # "accreteDust"

\* `after` is `before` with one planet more, the body of `p`.
InsertedOnce(before, after, p) ==
    \E i \in 1..Len(after) :
        /\ after[i].sma = p.sma
        /\ after[i].e = p.eccentricity
        /\ after[i].dustMass = p.dustMass
        /\ after[i].gasMass = p.gasMass
        /\ before = SubSeq(after, 1, i - 1) \o SubSeq(after, i + 1, Len(after))

\* C24: the recursion accreteDust -> coalescePlanetisimals -> accreteDust
\* terminates: every merge removes at least one planet before it recurses,
\* a protoplanet submitted to a list of n planets causes at most n merges,
\* and the chain ends with exactly one insertion, that of the final merged
\* body.
C24_RecursionTerminates ==
    /\ [][/\ MergeStep => Len(planetList') < Len(planetList)
          /\ InsertStep => InsertedOnce(planetList, planetList', protoplanet)
          /\ pc = "accreteDust" => planetList' = planetList]_vars
    /\ [](collision.merges <= collision.listed)
    /\ (pc = "coalescePlanetisimals" ~> AccreteDustReturned)

\* A chain of merges has ended with the insertion of the merged body.
C24_Witness ==
    /\ collision.done
    /\ collision.merges >= 1
    /\ collision.listed >= 2
    /\ AccreteDustReturned

\* A chain with two merges.
C24_WitnessTwoMerges == collision.merges >= 2

\* No two planets of the list have the same semi-major axis.
NoEqualSma ==
    \A i, j \in 1..Len(planetList) :
        i # j => planetList[i].sma # planetList[j].sma

\* The list right after a merge: one planet shorter than before, and the
\* planet that is gone is the matched one.
OnlyMatchedRemoved ==
    (collision.pending /\ pc = "accreteDust") =>
        \E i \in 1..(Len(planetList) + 1) :
            SubSeq(planetList, 1, i - 1) \o << collision.planet >>
                \o SubSeq(planetList, i, Len(planetList)) = collision.before

\* While remove_if runs, nothing is read through the iterator of the
\* matched planet once that planet has been erased.
MatchedNotReadAgain == collision.dangling = 0

\* C25: a merge removes exactly one planet, the matched one: no two planets
\* of the list ever have equal semi-major axes, so the removal by equality
\* of the semi-major axis deletes only the matched planet, and the matched
\* planet is not read again after it has been removed.
C25_MergeRemovesMatchedOnly ==
    /\ NoEqualSma
    /\ OnlyMatchedRemoved
    /\ MatchedNotReadAgain

\* The positions where bands can meet, and the bands that touch one.
Points == DustInner..DustOuter

Touches(band, x) == band.innerEdge <= x /\ x <= band.outerEdge

DustTouching(bands, x) ==
    \E i \in 1..Len(bands) : Touches(bands[i], x) /\ bands[i].dustPresent

GasTouching(bands, x) ==
    \E i \in 1..Len(bands) : Touches(bands[i], x) /\ bands[i].gasPresent

\* C26: dust and gas never reappear during a run: a position whose band has
\* dustPresent = false never has dustPresent = true again, likewise for
\* gasPresent; every updateDustLanes call can only clear flags.
C26_DustAndGasNeverReappear ==
    [][pc # "idle" =>
          /\ \A c \in Cells :
                /\ DustAt(availableDust', c) => DustAt(availableDust, c)
                /\ GasAt(availableDust', c) => GasAt(availableDust, c)
          /\ \A x \in Points :
                /\ DustTouching(availableDust', x) => DustTouching(availableDust, x)
                /\ GasTouching(availableDust', x) => GasTouching(availableDust, x)]_vars

\* A sweep whose limits reach over a position that had lost its dust before
\* and over one that still had dust and gas.
C26_Witness ==
    /\ sweep.called
    /\ availableDust
           = updateDustLanes(sweep.before, sweep.protoplanet, protoplanetZone).dust
    /\ \E c, d \in Cells :
           /\ sweep.protoplanet.r_inner <= c
           /\ c < sweep.protoplanet.r_outer
           /\ ~DustAt(sweep.before, c)
           /\ ~DustAt(availableDust, c)
           /\ DustAt(sweep.before, d)
           /\ GasAt(sweep.before, d)
           /\ ~DustAt(availableDust, d)
           /\ ~GasAt(availableDust, d)

\* What a planet is made of: semi-major axis, eccentricity, dust mass and
\* gas mass.
Body(planet) == << planet.sma, planet.e, planet.dustMass, planet.gasMass >>

Bodies(planets) == [i \in 1..Len(planets) |-> Body(planets[i])]

\* `longer` is `shorter` with one more element somewhere.
OneMore(shorter, longer) ==
    \E i \in 1..Len(longer) :
        shorter = SubSeq(longer, 1, i - 1) \o SubSeq(longer, i + 1, Len(longer))

\* C27: during accretion a merge or an insertion never changes the
\* semi-major axis, eccentricity, dust mass or gas mass of a planet that
\* stays in the list: the matched planet is removed, a new planet is
\* inserted later, every other planet is left as it is.
C27_StayingPlanetsUnchanged ==
    [][/\ MergeStep => OneMore(Bodies(planetList'), Bodies(planetList))
       /\ InsertStep => OneMore(Bodies(planetList), Bodies(planetList'))
       /\ (pc # "idle" /\ pc # "coalescePlanetisimals")
              => Bodies(planetList') = Bodies(planetList)]_vars

\* A merge has removed the matched planet and at least two planets stay.
C27_Witness ==
    /\ collision.pending
    /\ pc = "accreteDust"
    /\ Len(planetList) >= 2

(***************************************************************************)
(* The planets of the accretion engine in Planet::evaluate.                *)
(***************************************************************************)
\* The planets Planet::evaluate has taken to the assertion of the rocky
\* branch: the results of the planets the test of line 492 did not send to
\* the gas giant branch.
RockyBranchResults ==
    IF merger.at = "generated"
    THEN {merger.results[i] : i \in {j \in 1..Len(merger.results) :
                                        ~merger.results[j].gasGiantBranch}}
    ELSE {}

\* C28: the assertion at the start of the rocky branch of Planet::evaluate
\* never fails for a planet the accretion engine produces, planets formed by
\* a merge at a new orbit included: a planet that reaches the rocky branch
\* with gasMass / totalMass > 5% has dustMass > CriticalLimit(semimajorAxis,
\* eccentricity, luminosity).
C28_RockyAssertionNeverFails ==
    \A result \in RockyBranchResults : result.asserted

(***************************************************************************)
(* The surface covers in Planet::iterateSurfaceConditions.                 *)
(***************************************************************************)
Updated == covers.at \in {"loop", "done"}

\* Every update leaves (2 * old + new) / 3 in each of the three covers.
EveryUpdateBlends ==
    Updated =>
        /\ covers.blended = [k \in 1..3 |-> Blend(covers.old[k], covers.new[k])]
        /\ << covers.hydrosphere, covers.cloudCoverage, covers.iceCoverage >>
               = covers.blended

\* The blend that takes the new value outright on the first update.
BlendFirstOutright(old, new, first) == IF first THEN new ELSE Blend(old, new)

\* C29: the first update after initialization sets hydrosphere, cloud cover
\* and ice cover to the newly computed values outright; every later update
\* sets each of them to (2 * old + new) / 3.
C29_FirstUpdateOutright ==
    Updated =>
        << covers.hydrosphere, covers.cloudCoverage, covers.iceCoverage >>
            = [k \in 1..3 |->
                  BlendFirstOutright(covers.old[k], covers.new[k], covers.updates = 1)]

(***************************************************************************)
(* The parameters of KothariRadius.                                        *)
(***************************************************************************)
KothariReturned == kothari.at = "done"

\* The table entry of material zone `zone` (1, 2 or 3).
ZoneEntry(table, zone, forGasGiant) == table[zone - 1 + (IF forGasGiant THEN 3 ELSE 0)]

\* The zone index taken as floor(orbitZone) - 1.
ZoneIndexByFloor(orbitZone) == orbitZone \div ZoneUnit - 1

WholeZone == kothari.materialZone = Floorf(kothari.materialZone)

\* No table index outside the six entries is read.
ReadsInsideTable == KothariReturned => kothari.read \subseteq DOMAIN AtomicWeight

\* Below 3.0 the zone index is floor(materialZone) - 1, plus 3 for gas
\* giants, and at exactly 1.0 and 2.0 the parameters are the entries of
\* zone 1 and zone 2.
BelowZone3AsStated ==
    (KothariReturned /\ kothari.materialZone < 3 * ZoneUnit) =>
        /\ kothari.zoneIndex = ZoneIndexByFloor(kothari.materialZone)
                                   + (IF kothari.forGasGiant THEN 3 ELSE 0)
        /\ WholeZone =>
               /\ kothari.atomicWeight
                      = ZoneEntry(AtomicWeight, kothari.materialZone \div ZoneUnit,
                                  kothari.forGasGiant)
               /\ kothari.atomicNumber
                      = ZoneEntry(AtomicNumber, kothari.materialZone \div ZoneUnit,
                                  kothari.forGasGiant)

\* C30: KothariRadius selects its parameters with zone index
\* floor(materialZone) - 1 (plus 3 for gas giants) and interpolates toward
\* the next zone's entry by the fractional part of materialZone: at exactly
\* 1.0, 2.0 and 3.0 the parameters are the table entries of zone 1, zone 2
\* and zone 3, and no table index outside the six entries is read.
C30_ZoneParameters ==
    KothariReturned =>
        /\ kothari.read \subseteq DOMAIN AtomicWeight
        /\ kothari.materialZone \in ZoneUnit..(3 * ZoneUnit)
        /\ WholeZone =>
               /\ kothari.atomicWeight
                      = ZoneEntry(AtomicWeight, kothari.materialZone \div ZoneUnit,
                                  kothari.forGasGiant)
               /\ kothari.atomicNumber
                      = ZoneEntry(AtomicNumber, kothari.materialZone \div ZoneUnit,
                                  kothari.forGasGiant)
=============================================================================
